---------------------------- MODULE Spec2Model ----------------------------
(***************************************************************************)
(* Model of the repository analysis engine (backend/analyzer.py) and of    *)
(* the API layer (backend/main.py): the /reanalyze endpoint and the        *)
(* session globals written by /generate-docs, /latest-docs and             *)
(* /clear-all-data.                                                        *)
(*                                                                         *)
(* Strings are TLA+ strings; a path is a string with "/" separators.  The  *)
(* text of a file is not modelled byte for byte: a file content is an      *)
(* identifier whose length, syntax-tree captures and parse outcome are     *)
(* given by the table Content.                                             *)
(***************************************************************************)
EXTENDS Integers, Sequences, FiniteSets, TLC

(***************************************************************************)
(* String helpers (Python str methods used by the code)                    *)
(***************************************************************************)
Char(s, i) == SubSeq(s, i, i)

StartsWith(s, p) == Len(p) <= Len(s) /\ SubSeq(s, 1, Len(p)) = p

EndsWith(s, p) == Len(p) <= Len(s) /\ SubSeq(s, Len(s) - Len(p) + 1, Len(s)) = p

EndsWithAny(s, ps) == \E p \in ps : EndsWith(s, p)

\* str.replace(c, d) for a one-character c
RECURSIVE Replace(_, _, _)
Replace(s, c, d) ==
    IF Len(s) = 0 THEN ""
    ELSE (IF Char(s, 1) = c THEN d ELSE Char(s, 1)) \o Replace(Tail(s), c, d)

\* index of the first occurrence of the one-character c in s, 0 if none
IndexOf(s, c) ==
    IF \E i \in 1..Len(s) : Char(s, i) = c
    THEN CHOOSE i \in 1..Len(s) :
            Char(s, i) = c /\ \A j \in 1..(i - 1) : Char(s, j) # c
    ELSE 0

\* index of the last occurrence of the one-character c in s, 0 if none
LastIndexOf(s, c) ==
    IF \E i \in 1..Len(s) : Char(s, i) = c
    THEN CHOOSE i \in 1..Len(s) :
            Char(s, i) = c /\ \A j \in (i + 1)..Len(s) : Char(s, j) # c
    ELSE 0

\* s.split('/')
RECURSIVE SplitSlash(_)
SplitSlash(s) ==
    LET i == IndexOf(s, "/")
    IN  IF i = 0 THEN <<s>>
        ELSE <<SubSeq(s, 1, i - 1)>> \o SplitSlash(SubSeq(s, i + 1, Len(s)))

\* '/'.join(segs)
RECURSIVE JoinSlash(_)
JoinSlash(segs) ==
    IF Len(segs) = 0 THEN ""
    ELSE IF Len(segs) = 1 THEN segs[1]
    ELSE segs[1] \o "/" \o JoinSlash(Tail(segs))

\* s.rstrip('/')
RECURSIVE RStripSlash(_)
RStripSlash(s) ==
    IF Len(s) > 0 /\ Char(s, Len(s)) = "/"
    THEN RStripSlash(SubSeq(s, 1, Len(s) - 1))
    ELSE s

AllSlashes(s) == \A i \in 1..Len(s) : Char(s, i) = "/"

QuoteChars == {"\"", "'"}

\* text.strip('"\'')
RECURSIVE StripQuotes(_)
StripQuotes(s) ==
    IF Len(s) > 0 /\ (Char(s, 1) \in QuoteChars \/ Char(s, Len(s)) \in QuoteChars)
    THEN StripQuotes(IF Char(s, 1) \in QuoteChars THEN Tail(s)
                     ELSE SubSeq(s, 1, Len(s) - 1))
    ELSE s

(***************************************************************************)
(* os.path (POSIX) as the code uses it                                     *)
(***************************************************************************)
\* os.path.join(a, b)
PathJoin(a, b) ==
    IF StartsWith(b, "/") THEN b
    ELSE IF Len(a) = 0 \/ EndsWith(a, "/") THEN a \o b
    ELSE a \o "/" \o b

\* os.path.join(a, b, c)
PathJoin3(a, b, c) == PathJoin(PathJoin(a, b), c)

\* os.path.dirname(p)
Dirname(p) ==
    LET i    == LastIndexOf(p, "/")
        head == SubSeq(p, 1, i)
    IN  IF Len(head) > 0 /\ ~AllSlashes(head) THEN RStripSlash(head) ELSE head

\* the component loop of os.path.normpath
RECURSIVE NormComps(_, _, _)
NormComps(comps, acc, rooted) ==
    IF Len(comps) = 0 THEN acc
    ELSE NormComps(Tail(comps),
            IF Head(comps) = "" \/ Head(comps) = "." THEN acc
            ELSE IF \/ Head(comps) # ".."
                    \/ (~rooted /\ Len(acc) = 0)
                    \/ (Len(acc) > 0 /\ acc[Len(acc)] = "..")
                 THEN Append(acc, Head(comps))
                 ELSE IF Len(acc) > 0 THEN SubSeq(acc, 1, Len(acc) - 1) ELSE acc,
            rooted)

\* os.path.normpath(p)
Normpath(p) ==
    IF Len(p) = 0 THEN "."
    ELSE LET slashes == IF ~StartsWith(p, "/") THEN ""
                        ELSE IF StartsWith(p, "//") /\ ~StartsWith(p, "///") THEN "//"
                        ELSE "/"
             body == JoinSlash(NormComps(SplitSlash(p), << >>, Len(slashes) > 0))
             out  == slashes \o body
         IN  IF Len(out) = 0 THEN "." ELSE out


(***************************************************************************)
(* Program constants                                                       *)
(***************************************************************************)
\* LANGUAGE_MAP: extension -> tree-sitter language
LANGUAGE_MAP ==
    [e \in {".ts", ".tsx", ".js", ".jsx", ".py", ".java", ".go", ".rs"} |->
        CASE e \in {".ts", ".tsx"} -> "typescript"
          [] e \in {".js", ".jsx"} -> "javascript"
          [] e = ".py"   -> "python"
          [] e = ".java" -> "java"
          [] e = ".go"   -> "go"
          [] e = ".rs"   -> "rust"]

LangExts == DOMAIN LANGUAGE_MAP

\* the capture tags each language's query can produce; a language of
\* LANGUAGE_MAP without an entry has no query
QUERIES ==
    [l \in {"typescript", "javascript", "python"} |->
        CASE l = "typescript" ->
                {"import_path", "class_name", "interface_name", "func_name", "type_name"}
          [] l = "javascript" -> {"import_path", "class_name", "func_name"}
          [] l = "python"     -> {"import_path", "class_name", "func_name"}]

AuxExts == {".json", ".md", ".txt"}

IgnoredDirs == {".git", "node_modules", "dist", "build", "__pycache__", ".next"}

\* possible_extensions with the JavaScript suffixes probed first
PossibleExtensions_JsFirst ==
    <<".js", ".jsx", ".ts", ".tsx", "/index.js", "/index.ts", "/index.tsx", "">>

\* possible_extensions, in probing order
PossibleExtensions ==
    <<".ts", ".tsx", ".js", ".jsx", "/index.ts", "/index.tsx", "/index.js", "">>

TreeLimit == 500

SnippetLimit == 300

MAX_CHARS == 35000

MAX_CHARS_API_REF == 100000

\* len("\n\n... [Context Truncated Limit Reached] ...\n")
MarkerLen == 44

\* len("\n--- ") + len(" ---\n") + len("\n")
ChunkOverhead == 11

(***************************************************************************)
(* The file system.  A file is keyed by its absolute path; the repository  *)
(* root is RepoPath.                                                       *)
(***************************************************************************)
RepoPath == "/repo"

Abs(rel) == PathJoin(RepoPath, rel)

\* os.path.splitext(filename)[1]
Ext(filename) ==
    LET base == SubSeq(filename, LastIndexOf(filename, "/") + 1, Len(filename))
        \* leading dots of the base name are not an extension separator
        lead == IF \E k \in 1..Len(base) : Char(base, k) # "."
                THEN (CHOOSE k \in 1..Len(base) :
                        Char(base, k) # "." /\ \A j \in 1..(k - 1) : Char(base, j) = ".") - 1
                ELSE Len(base)
        i    == LastIndexOf(base, ".")
    IN  IF i > lead THEN SubSeq(base, i, Len(base)) ELSE ""

IsDirAt(d, rootExists, key) ==
    \/ key = "/"
    \/ (key = RepoPath /\ rootExists)
    \/ \E f \in DOMAIN d : StartsWith(f, key \o "/")

\* the kernel's path walk: "file", "dir" or "none" for the remaining
\* segments segs below the directory cur (a sequence of names)
RECURSIVE Lookup(_, _, _, _)
Lookup(d, rootExists, segs, cur) ==
    IF Len(segs) = 0 THEN "dir"
    ELSE LET seg == Head(segs)
             key == "/" \o JoinSlash(Append(cur, seg))
         IN  IF seg \in {"", ".", ".."} \/ IsDirAt(d, rootExists, key)
             THEN Lookup(d, rootExists, Tail(segs),
                         IF seg \in {"", "."} THEN cur
                         ELSE IF seg = ".."
                              THEN (IF Len(cur) = 0 THEN cur
                                    ELSE SubSeq(cur, 1, Len(cur) - 1))
                              ELSE Append(cur, seg))
             ELSE IF key \in DOMAIN d /\ Len(segs) = 1 THEN "file"
             ELSE "none"

\* os.path.exists(p) and os.path.isfile(p) for an absolute path p
OsExists(d, rootExists, p) == Lookup(d, rootExists, SplitSlash(p), << >>) # "none"

OsIsFile(d, rootExists, p) == Lookup(d, rootExists, SplitSlash(p), << >>) = "file"

\* the key of the file an absolute path p names (p names a file)
RECURSIVE ResolveKey(_, _)
ResolveKey(segs, cur) ==
    IF Len(segs) = 0 THEN "/" \o JoinSlash(cur)
    ELSE ResolveKey(Tail(segs),
                    IF Head(segs) \in {"", "."} THEN cur
                    ELSE IF Head(segs) = ".."
                         THEN (IF Len(cur) = 0 THEN cur ELSE SubSeq(cur, 1, Len(cur) - 1))
                         ELSE Append(cur, Head(segs)))

FileKey(p) == ResolveKey(SplitSlash(p), << >>)

(***************************************************************************)
(* File contents.  What the code reads off a text: its length, what        *)
(* tree-sitter's parse and query give for it, and, for a tsconfig.json,    *)
(* its text and what json.loads gives for that text as it stands.          *)
(***************************************************************************)
Cap(tag, raw, line0) == [tag |-> tag, raw |-> raw, line0 |-> line0]

NoJson == [ok |-> FALSE, opts |-> "none", base |-> "none", paths |-> "none",
           baseUrl |-> ".", items |-> << >>]

\* a tsconfig whose compilerOptions hold baseUrl b and the paths object items
JsonPaths(b, items) ==
    [ok |-> TRUE, opts |-> "dict", base |-> "str", paths |-> "dict",
     baseUrl |-> b, items |-> items]

\* text:      the characters of the file (of the tsconfig.json files only)
\* json:      json.loads(text); ok is FALSE when it raises
\* component: the text holds 'export default function' or 'const <Name>'
\* refs:      extract_referenced_types(text)
\* decls:     the type names T for which the text declares interface, type,
\*            enum or class T
\* mentions:  the words of text.lower() the name search looks for
\* exports:   the sources of the text's 'export ... from' statements
\* types_len: len(_extract_types_only(text))
Plain(n) ==
    [len |-> n, parse_ok |-> TRUE, captures |-> << >>, text |-> "", json |-> NoJson,
     component |-> FALSE, refs |-> {}, decls |-> {}, mentions |-> {},
     exports |-> << >>, types_len |-> n]

Typed(c, refs, decls, mentions, n) ==
    [c EXCEPT !.refs = refs, !.decls = decls, !.mentions = mentions, !.types_len = n]

Code(n, caps) == [Plain(n) EXCEPT !.captures = caps]

Content ==
    [c \in {"svc1", "svc2", "dto1", "math_ts", "math_js", "pkg_idx", "css", "app",
            "barrel1", "model1", "app2", "css_ts",
            "svc3", "dto2", "model2", "barrel2", "barrel3", "deep1", "hosts",
            "pkg_small", "pkg_big", "readme_small", "readme_big", "broken",
            "tsc_alias", "tsc_null", "tsc_bad", "tsc_plain", "tsc_dot",
            "tsc_src", "tsc_cmt", "tsc_url", "tsc_glob"} |->
        CASE c = "svc1" ->
                Typed(Code(420, << Cap("import_path", "'./dto/user.dto'", 0),
                                   Cap("import_path", "\"@/utils/math\"", 1),
                                   Cap("import_path", "'lodash'", 2),
                                   Cap("class_name", "UserService", 4) >>),
                      {"UserDto", "Promise"}, {"UserService"},
                      {"userdto", "userservice", "user"}, 380)
          [] c = "svc2" ->
                Typed(Code(180, << Cap("import_path", "'lodash'", 0),
                                   Cap("import_path", "'./style.css'", 1),
                                   Cap("import_path", "'./models'", 2),
                                   Cap("func_name", "createUser", 4) >>),
                      {"UserModel", "IUserInput"}, {}, {"usermodel", "iuserinput"}, 180)
          [] c = "dto1" ->
                Typed(Code(90, << Cap("interface_name", "UserDto", 0),
                                  Cap("type_name", "UserId", 5) >>),
                      {"UserDto"}, {"UserDto", "UserId"}, {"userdto", "userid"}, 90)
          [] c = "barrel1" ->
                [Code(40, << >>) EXCEPT !.exports = << "./user.model", "./missing" >>]
          [] c = "model1" ->
                Typed(Code(150, << Cap("interface_name", "UserModel", 0),
                                   Cap("interface_name", "IUserInput", 6) >>),
                      {"UserModel", "IUserInput"}, {"UserModel", "IUserInput"},
                      {"usermodel", "iuserinput"}, 150)
          [] c = "svc3" ->
                \* imports itself, and declares a request type it refers to
                Typed(Code(500, << Cap("import_path", "'./user.service'", 0),
                                   Cap("import_path", "'./dto/user.dto'", 1),
                                   Cap("import_path", "'./models/user.model'", 2),
                                   Cap("import_path", "'./models'", 3),
                                   Cap("interface_name", "CreateUserRequest", 5),
                                   Cap("class_name", "UserService", 9) >>),
                      {"CreateUserRequest", "UserDto", "DeepModel", "Promise"},
                      {"CreateUserRequest", "UserService"},
                      {"createuserrequest", "userdto", "deepmodel", "userservice", "user"},
                      120)
          [] c = "dto2" ->
                \* dto2 and model2 import each other
                Typed(Code(95, << Cap("import_path", "'../models/user.model'", 0),
                                  Cap("interface_name", "UserDto", 2) >>),
                      {"UserDto", "UserModel"}, {"UserDto"}, {"userdto", "usermodel"}, 95)
          [] c = "model2" ->
                Typed(Code(105, << Cap("import_path", "'../dto/user.dto'", 0),
                                   Cap("interface_name", "UserModel", 2) >>),
                      {"UserDto", "UserModel"}, {"UserModel"}, {"userdto", "usermodel"}, 105)
          [] c = "barrel2" ->
                \* barrel2 and barrel3 re-export each other
                [Code(60, << >>) EXCEPT !.exports = << "./user.model", "./nested" >>]
          [] c = "barrel3" ->
                [Code(58, << >>) EXCEPT !.exports = << "./deep.model", "../index" >>]
          [] c = "deep1" ->
                Typed(Code(80, << Cap("interface_name", "DeepModel", 0) >>),
                      {"DeepModel"}, {"DeepModel"}, {"deepmodel"}, 80)
          [] c = "hosts" -> Plain(20)
          [] c = "math_ts" -> Code(60, << Cap("func_name", "add", 0) >>)
          [] c = "math_js" -> Code(55, << Cap("func_name", "add", 0) >>)
          [] c = "pkg_idx" -> Code(70, << Cap("import_path", "'./lib'", 0),
                                          Cap("func_name", "main", 2) >>)
          [] c = "app" ->
                [Code(240, << Cap("import_path", "'@/utils/math'", 0),
                              Cap("func_name", "App", 2) >>) EXCEPT !.component = TRUE]
          [] c = "app2" ->
                \* a declaration above the file's import statement
                [Code(200, << Cap("func_name", "App", 0),
                              Cap("import_path", "'./user.service'", 3),
                              Cap("func_name", "Late", 5) >>) EXCEPT !.component = TRUE]
          [] c = "css_ts" -> Code(45, << >>)
          [] c = "broken" -> [Plain(33) EXCEPT !.parse_ok = FALSE]
          [] c = "css" -> Plain(50)
          [] c = "pkg_small" -> Plain(300)
          [] c = "pkg_big" -> Plain(34970)
          [] c = "readme_small" -> Plain(120)
          [] c = "readme_big" -> Plain(34970)
          [] c = "tsc_alias" ->
                [Plain(110) EXCEPT
                    !.text = "{\"compilerOptions\":{\"baseUrl\":\".\",\"paths\":{\"@/*\":[\"src/*\"]}}"
                             \o "                                                 }",
                    !.json = JsonPaths(".", << <<"@/*", <<"src/*">> >> >>)]
          [] c = "tsc_dot" ->
                [Plain(130) EXCEPT
                    !.text = "{\"compilerOptions\":{\"baseUrl\":\"src\",\"paths\":{"
                             \o "\"./lib/*\":[\"vendor/*\"],\"~/*\":[],\"@/*\":[\"utils/*\"],"
                             \o "\"~/utils/*\":[\"utils/*\"]}}         }",
                    !.json = JsonPaths("src", << <<"./lib/*", <<"vendor/*">> >>,
                                                 <<"~/*", << >> >>,
                                                 <<"@/*", <<"utils/*">> >>,
                                                 <<"~/utils/*", <<"utils/*">> >> >>)]
          [] c = "tsc_null" ->
                [Plain(40) EXCEPT
                    !.text = "{\"compilerOptions\":{\"paths\":null}      }",
                    !.json = [ok |-> TRUE, opts |-> "dict", base |-> "none", paths |-> "null",
                              baseUrl |-> ".", items |-> << >>]]
          [] c = "tsc_bad" -> [Plain(25) EXCEPT !.text = "{\"compilerOptions\": {,,}}"]
          [] c = "tsc_plain" ->
                [Plain(30) EXCEPT
                    !.text = "{\"files\":[\"a.ts\"]            }",
                    !.json = [ok |-> TRUE, opts |-> "none", base |-> "none", paths |-> "none",
                              baseUrl |-> ".", items |-> << >>]]
          [] c = "tsc_src" ->
                [Plain(39) EXCEPT
                    !.text = "{\n\"compilerOptions\":{\"baseUrl\":\"src\"}\n}",
                    !.json = [ok |-> TRUE, opts |-> "dict", base |-> "str", paths |-> "none",
                              baseUrl |-> "src", items |-> << >>]]
          [] c = "tsc_cmt" ->
                \* the text of tsc_src with a block and a line comment added
                [Plain(61) EXCEPT
                    !.text = "{/* build\n */\n\"compilerOptions\":{\"baseUrl\":\"src\"}// aliases\n}"]
          [] c = "tsc_url" ->
                \* a string value that holds '//'
                [Plain(87) EXCEPT
                    !.text = "{\"$schema\":\"https://json.schemastore.org/tsconfig\","
                             \o "\"compilerOptions\":{\"baseUrl\":\"src\"}}",
                    !.json = [ok |-> TRUE, opts |-> "dict", base |-> "str", paths |-> "none",
                              baseUrl |-> "src", items |-> << >>]]
          [] c = "tsc_glob" ->
                \* string values that hold '/*' and, further on, '*/'
                [Plain(84) EXCEPT
                    !.text = "{\"compilerOptions\":{\"baseUrl\":\".\",\"paths\":{\"@/*\":[\"src/*\"]}},"
                             \o "\"include\":[\"src/**/*\"]}",
                    !.json = JsonPaths(".", << <<"@/*", <<"src/*">> >> >>)]]

ContentIds == DOMAIN Content

(***************************************************************************)
(* State                                                                   *)
(***************************************************************************)
VARIABLES
    root_exists,        \* os.path.exists(repo_path)
    disk,               \* absolute path of each file -> [cid, readable]
    ts_available,       \* TREE_SITTER_AVAILABLE
    tsconfig_paths,     \* self.tsconfig_paths: [kind, items]
    tsconfig_base_url,  \* self.tsconfig_base_url
    file_map,           \* self.file_map: sequence of <<path, cid>>, insertion order
    tree_structure,     \* self.tree_structure: the paths joined by "\n"
    graph,              \* self.graph: [nodes, edges]
    op,                 \* the last operation and how it ended
    context,            \* what the last get_context returned
    resolved,           \* what the last _resolve_import_path did
    walked,             \* the files the last analyze() collected
    n_ops,              \* operations so far
    n_changes,          \* file system changes so far
    active,             \* the analyzer is main.py's active_analyzer
    events,             \* the steps of __init__ and of the last analyze(), in order
    exported,           \* what the last export_knowledge_graph returned
    active_analyzer,    \* main.py's global: [by, repo], the request that built
                        \* the analyzer and its repository; by = 0 for None
    active_repo_id,     \* main.py's global: a repository id, "" for None
    active_doc_parts,   \* main.py's global: [by, repo], the request whose doc
                        \* parts these are; by = 0 for {}
    cache_file,         \* CACHE_FILE: [exists, docParts, repoPath, repoId]
    pending,            \* the generate-docs requests waiting for the LLM
    n_requests          \* API requests so far

vars == <<root_exists, disk, ts_available, tsconfig_paths, tsconfig_base_url,
          file_map, tree_structure, graph, op, context, resolved, walked,
          n_ops, n_changes, active, events, exported,
          active_analyzer, active_repo_id, active_doc_parts, cache_file,
          pending, n_requests>>

\* a step of the analyzer: "load_tsconfig", "collect" (file_map[file] is set)
\* or "resolve" (_resolve_import_path(file, arg) is called)
Event(ev, file, arg) == [ev |-> ev, file |-> file, arg |-> arg]

(***************************************************************************)
(* self.file_map, a dict: insertion-ordered                                *)
(***************************************************************************)
FmKeys(fm) == {fm[i][1] : i \in 1..Len(fm)}

FmHas(fm, k) == k \in FmKeys(fm)

FmGet(fm, k) == fm[CHOOSE i \in 1..Len(fm) : fm[i][1] = k][2]

\* fm[k] = v
FmPut(fm, k, v) ==
    IF FmHas(fm, k)
    THEN [i \in 1..Len(fm) |-> IF fm[i][1] = k THEN <<k, v>> ELSE fm[i]]
    ELSE Append(fm, <<k, v>>)

(***************************************************************************)
(* self.graph, a networkx.DiGraph: attributed nodes, and at most one edge  *)
(* from u to v, which carries a relation; the edges are kept in the order  *)
(* they were first added, the order successors() lists them in             *)
(***************************************************************************)
NoAttrs == [k \in {} |-> ""]

EmptyGraph == [nodes |-> [n \in {} |-> NoAttrs], edges |-> << >>]

Merge(old, new) ==
    [k \in DOMAIN old \cup DOMAIN new |-> IF k \in DOMAIN new THEN new[k] ELSE old[k]]

\* graph.add_node(id, **attrs)
AddNode(g, id, attrs) ==
    [g EXCEPT !.nodes =
        [n \in DOMAIN g.nodes \cup {id} |->
            IF n = id
            THEN Merge(IF id \in DOMAIN g.nodes THEN g.nodes[id] ELSE NoAttrs, attrs)
            ELSE g.nodes[n]]]

\* add_edge as on a multigraph: one more edge each time
AddEdge_Append(g, u, v, rel) ==
    [nodes |-> [n \in DOMAIN g.nodes \cup {u, v} |->
                    IF n \in DOMAIN g.nodes THEN g.nodes[n] ELSE NoAttrs],
     edges |-> Append(g.edges, <<u, v, rel>>)]

\* graph.add_edge(u, v, relation=rel)
AddEdge(g, u, v, rel) ==
    [nodes |-> [n \in DOMAIN g.nodes \cup {u, v} |->
                    IF n \in DOMAIN g.nodes THEN g.nodes[n] ELSE NoAttrs],
     edges |-> IF \E i \in DOMAIN g.edges : g.edges[i][1] = u /\ g.edges[i][2] = v
               THEN [i \in DOMAIN g.edges |->
                        IF g.edges[i][1] = u /\ g.edges[i][2] = v
                        THEN <<u, v, rel>> ELSE g.edges[i]]
               ELSE Append(g.edges, <<u, v, rel>>)]

Nodes(g) == DOMAIN g.nodes

Edges(g) == {g.edges[i] : i \in DOMAIN g.edges}

\* list(graph.successors(n))
Successors(g, n) ==
    LET out == SelectSeq(g.edges, LAMBDA e : e[1] = n)
    IN  [i \in 1..Len(out) |-> out[i][2]]

\* graph.predecessors(n) with the inbound edges left out
Predecessors_None(g, n) == << >>

\* list(graph.predecessors(n))
Predecessors(g, n) ==
    LET inb == SelectSeq(g.edges, LAMBDA e : e[2] = n)
    IN  [i \in 1..Len(inb) |-> inb[i][1]]

\* attrs.get(key, default)
AttrGet(attrs, key, default) == IF key \in DOMAIN attrs THEN attrs[key] ELSE default

NodeType(g, n) == IF "type" \in DOMAIN g.nodes[n] THEN g.nodes[n]["type"] ELSE "none"

(***************************************************************************)
(* RepoAnalyzer._load_tsconfig                                             *)
(***************************************************************************)
DefaultTsconfig == [base_url |-> ".", paths |-> [kind |-> "dict", items |-> << >>]]

\* re.sub(r'//.*', '', content): from each '//' to the end of its line
RECURSIVE StripLineComments(_)
StripLineComments(content) ==
    LET starts == {i \in 1..(Len(content) - 1) : SubSeq(content, i, i + 1) = "//"}
    IN  IF starts = {} THEN content
        ELSE LET i    == CHOOSE k \in starts : \A m \in starts : k <= m
                 rest == SubSeq(content, i, Len(content))
                 nl   == IndexOf(rest, "\n")
             IN  SubSeq(content, 1, i - 1)
                    \o (IF nl = 0 THEN ""
                        ELSE StripLineComments(SubSeq(rest, nl, Len(rest))))

\* re.sub(r'/\*.*?\*/', '', content, flags=re.DOTALL): from each '/*' to the
\* first '*/' after it, line ends included
RECURSIVE StripBlockComments(_)
StripBlockComments(content) ==
    LET starts == {i \in 1..(Len(content) - 1) : SubSeq(content, i, i + 1) = "/*"}
        i      == CHOOSE k \in starts : \A m \in starts : k <= m
        ends   == {j \in (i + 2)..(Len(content) - 1) : SubSeq(content, j, j + 1) = "*/"}
        j      == CHOOSE k \in ends : \A m \in ends : k <= m
    IN  IF starts = {} THEN content
        ELSE IF ends = {} THEN content
        ELSE SubSeq(content, 1, i - 1)
                \o StripBlockComments(SubSeq(content, j + 2, Len(content)))

\* json.loads(content): the value of a text of the table, ValueError else
JsonLoads(content) ==
    IF \E c \in ContentIds : Content[c].text = content /\ Content[c].json.ok
    THEN Content[CHOOSE c \in ContentIds :
                    Content[c].text = content /\ Content[c].json.ok].json
    ELSE NoJson

LoadTsconfig(d, rootExists) ==
    LET tsconfig_path == PathJoin(RepoPath, "tsconfig.json")
    IN  IF ~OsExists(d, rootExists, tsconfig_path) THEN DefaultTsconfig
        ELSE IF ~OsIsFile(d, rootExists, tsconfig_path) THEN DefaultTsconfig
        ELSE LET f == d[FileKey(tsconfig_path)]
                 j == JsonLoads(StripBlockComments(StripLineComments(Content[f.cid].text)))
             IN  IF ~f.readable \/ ~j.ok \/ j.opts = "other" THEN DefaultTsconfig
                 ELSE IF j.opts = "none" THEN DefaultTsconfig
                 ELSE [base_url |-> IF j.base = "str" THEN j.baseUrl ELSE ".",
                       paths    |-> CASE j.paths = "dict" -> [kind |-> "dict", items |-> j.items]
                                      [] j.paths = "none" -> [kind |-> "dict", items |-> << >>]
                                      [] OTHER -> [kind |-> "null", items |-> << >>]]

(***************************************************************************)
(* RepoAnalyzer._resolve_import_path                                       *)
(***************************************************************************)
\* step 1: the alias loop; the import string itself when no alias applies
RECURSIVE AliasSubstitution(_, _, _)
AliasSubstitution(items, base_url, import_str) ==
    IF Len(items) = 0 THEN import_str
    ELSE LET alias        == items[1][1]
             targets      == items[1][2]
             alias_prefix == Replace(alias, "*", "")
         IN  IF StartsWith(import_str, alias_prefix) /\ Len(targets) > 0
             THEN PathJoin3(base_url, Replace(targets[1], "*", ""),
                            SubSeq(import_str, Len(alias_prefix) + 1, Len(import_str)))
             ELSE AliasSubstitution(Tail(items), base_url, import_str)

\* step 2 with the override lost: an alias that matched wins
RelativeSubstitution_KeepsAlias(current_file, import_str, aliased) ==
    IF StartsWith(import_str, ".") /\ aliased = import_str
    THEN Normpath(PathJoin(Dirname(current_file), import_str))
    ELSE aliased

\* step 2: a relative import replaces the alias result
RelativeSubstitution(current_file, import_str, aliased) ==
    IF StartsWith(import_str, ".")
    THEN Normpath(PathJoin(Dirname(current_file), import_str))
    ELSE aliased

\* step 3: forward slashes, one leading slash stripped
NormalizePath(resolved_path) ==
    LET r == Replace(resolved_path, "\\", "/")
    IN  IF StartsWith(r, "/") THEN Tail(r) ELSE r

\* steps 1 to 3: the path before extension probing
PreProbePath(items, base_url, current_file, import_str) ==
    NormalizePath(RelativeSubstitution(current_file, import_str,
                      AliasSubstitution(items, base_url, import_str)))

\* one candidate of step 4
CandidateExists(fm, d, rootExists, candidate) ==
    \/ FmHas(fm, candidate)
    \/ OsIsFile(d, rootExists, PathJoin(RepoPath, candidate))

\* step 4: the loop over possible_extensions from index i on, and what the
\* call returns: the first candidate that exists, or None
RECURSIVE ProbeFrom(_, _, _, _, _)
ProbeFrom(fm, d, rootExists, resolved_path, i) ==
    IF i > Len(PossibleExtensions)
    THEN [raised |-> FALSE, pre |-> resolved_path, found |-> FALSE, path |-> ""]
    ELSE IF CandidateExists(fm, d, rootExists, resolved_path \o PossibleExtensions[i])
         THEN [raised |-> FALSE, pre |-> resolved_path, found |-> TRUE,
               path |-> resolved_path \o PossibleExtensions[i]]
         ELSE ProbeFrom(fm, d, rootExists, resolved_path, i + 1)

ResolveImportPath(paths, base_url, fm, d, rootExists, current_file, import_str) ==
    IF paths.kind # "dict"
    THEN \* None.items() raises AttributeError
         [raised |-> TRUE, pre |-> "", found |-> FALSE, path |-> ""]
    ELSE ProbeFrom(fm, d, rootExists,
                   PreProbePath(paths.items, base_url, current_file, import_str), 1)

(***************************************************************************)
(* RepoAnalyzer._get_parser_for_file and RepoAnalyzer._parse_dependencies  *)
(***************************************************************************)
\* LANGUAGE_MAP.get(os.path.splitext(filename)[1]), "none" for None
LanguageOf(filename) ==
    IF Ext(filename) \in DOMAIN LANGUAGE_MAP THEN LANGUAGE_MAP[Ext(filename)] ELSE "none"

\* the language whose parser _get_parser_for_file returns, "none" for None
ParserFor(available, filename) ==
    IF ~available THEN "none" ELSE LanguageOf(filename)

\* whether _parse_dependencies gets as far as parsing the file
\* the guards on TREE_SITTER_AVAILABLE lost
ParsesFile_Always(available, filename) == LanguageOf(filename) # "none"

ParsesFile(available, filename) == available /\ ParserFor(available, filename) # "none"

\* query.captures(tree.root_node): the captures of the language's query
CapturesOf(lang, cid) ==
    SelectSeq(Content[cid].captures, LAMBDA c : c.tag \in QUERIES[lang])

DefinitionTags == {"class_name", "interface_name", "type_name", "func_name"}

\* tag.replace('_name', '')
KindOf(tag) == SubSeq(tag, 1, Len(tag) - Len("_name"))

SymbolId(rel_path, text) == rel_path \o "::" \o text

SymbolAttrs(rel_path, c) ==
    [type     |-> "entity",
     name     |-> StripQuotes(c.raw),
     kind     |-> KindOf(c.tag),
     filePath |-> rel_path,
     snippet  |-> SubSeq(c.raw, 1, IF Len(c.raw) < SnippetLimit THEN Len(c.raw) ELSE SnippetLimit),
     line     |-> c.line0 + 1]

\* lines 195-198 with the test of the resolve result lost
AddImport_Always(st, rel_path, r) ==
    IF r.raised THEN [st EXCEPT !.raised = TRUE]
    ELSE [st EXCEPT !.graph = AddEdge(@, rel_path, IF r.found THEN r.path ELSE r.pre,
                                      "imports")]

\* lines 195-198: what the resolve result r does to st = [graph, raised, log]
AddImport(st, rel_path, r) ==
    IF r.raised THEN [st EXCEPT !.raised = TRUE]
    ELSE IF r.found THEN [st EXCEPT !.graph = AddEdge(@, rel_path, r.path, "imports")]
    ELSE st

\* the body of the loop over the captures, for the capture c
Capture(st, fm, rel_path, c) ==
    IF c.tag = "import_path"
    THEN AddImport([st EXCEPT !.log = Append(@, Event("resolve", rel_path,
                                                     StripQuotes(c.raw)))],
                   rel_path,
                   ResolveImportPath(tsconfig_paths, tsconfig_base_url, fm, disk,
                                     root_exists, rel_path, StripQuotes(c.raw)))
    ELSE IF c.tag \in DefinitionTags
    THEN [st EXCEPT !.graph =
            AddEdge(AddNode(@, SymbolId(rel_path, StripQuotes(c.raw)),
                            SymbolAttrs(rel_path, c)),
                    rel_path, SymbolId(rel_path, StripQuotes(c.raw)), "defines")]
    ELSE st

\* the loop over the captures; a raise inside it ends the loop and keeps
\* what the earlier captures added
RECURSIVE CaptureLoop(_, _, _, _)
CaptureLoop(st, fm, rel_path, caps) ==
    IF st.raised \/ Len(caps) = 0 THEN st
    ELSE CaptureLoop(Capture(st, fm, rel_path, Head(caps)), fm, rel_path, Tail(caps))

\* st = [graph, raised, log]; the except clause swallows what the loop raised
ParseDependencies(st, fm, rel_path, cid, filename) ==
    IF ~ParsesFile(ts_available, filename) THEN st
    ELSE LET lang == LanguageOf(filename)
         IN  IF ~Content[cid].parse_ok THEN st
             ELSE IF lang \notin DOMAIN QUERIES THEN st
             ELSE [CaptureLoop(st, fm, rel_path, CapturesOf(lang, cid))
                      EXCEPT !.raised = FALSE]

(***************************************************************************)
(* RepoAnalyzer.analyze                                                    *)
(***************************************************************************)
\* the files below the root in the order os.walk lists them
WalkOrder ==
    << "README.md", "package.json", "tsconfig.json",
       "node_modules/pkg/index.js",
       "src/App.tsx", "src/style.css", "src/style.css.ts", "src/user.service.ts",
       "src/dto/user.dto.ts",
       "src/models/index.ts", "src/models/user.model.ts",
       "src/models/nested/deep.model.ts", "src/models/nested/index.ts",
       "src/utils/math.js", "src/utils/math.ts" >>

\* the directories on the way to the file
DirsOf(rel) == LET segs == SplitSlash(rel) IN {segs[i] : i \in 1..(Len(segs) - 1)}

\* dirs[:] = [d for d in dirs if d not in [...]]: nothing below is visited
Pruned(rel) == DirsOf(rel) \cap IgnoredDirs # {}

Basename(rel) == SubSeq(rel, LastIndexOf(rel, "/") + 1, Len(rel))

Accepted(rel) ==
    EndsWithAny(Basename(rel), LangExts) \/ EndsWithAny(Basename(rel), AuxExts)

\* the files the walk reads, in order
Collected(d) ==
    SelectSeq(WalkOrder,
        LAMBDA rel : /\ Abs(rel) \in DOMAIN d
                     /\ ~Pruned(rel)
                     /\ Accepted(rel)
                     /\ d[Abs(rel)].readable)

\* pass 1 with graph.add_node lost
RECURSIVE ScanPass_NoNode(_, _, _, _)
ScanPass_NoNode(fm, g, files, log) ==
    IF Len(files) = 0 THEN [file_map |-> fm, graph |-> g, log |-> log]
    ELSE ScanPass_NoNode(FmPut(fm, Head(files), disk[Abs(Head(files))].cid),
                         g, Tail(files), Append(log, Event("collect", Head(files), "")))

\* pass 1 with each file parsed as soon as it is read
RECURSIVE ScanPass_Interleaved(_, _, _, _)
ScanPass_Interleaved(fm, g, files, log) ==
    IF Len(files) = 0 THEN [file_map |-> fm, graph |-> g, log |-> log]
    ELSE LET rel_path == Head(files)
             cid      == disk[Abs(rel_path)].cid
             fm1      == FmPut(fm, rel_path, cid)
             st       == ParseDependencies(
                             [graph  |-> AddNode(g, rel_path,
                                                 [type |-> "file", size |-> Content[cid].len]),
                              raised |-> FALSE,
                              log    |-> Append(log, Event("collect", rel_path, ""))],
                             fm1, rel_path, cid, rel_path)
         IN  ScanPass_Interleaved(fm1, st.graph, Tail(files), st.log)

\* pass 1, over the collected files
RECURSIVE ScanPass(_, _, _, _)
ScanPass(fm, g, files, log) ==
    IF Len(files) = 0 THEN [file_map |-> fm, graph |-> g, log |-> log]
    ELSE LET rel_path == Head(files)
             cid      == disk[Abs(rel_path)].cid
         IN  ScanPass(FmPut(fm, rel_path, cid),
                      AddNode(g, rel_path, [type |-> "file", size |-> Content[cid].len]),
                      Tail(files), Append(log, Event("collect", rel_path, "")))

\* pass 2, over self.file_map.items() from index i on; st = [graph, raised, log]
RECURSIVE DependencyPass(_, _, _)
DependencyPass(fm, st, i) ==
    IF i > Len(fm) THEN st
    ELSE DependencyPass(fm,
            IF EndsWithAny(fm[i][1], LangExts)
            THEN ParseDependencies(st, fm, fm[i][1], fm[i][2], fm[i][1])
            ELSE st,
            i + 1)

\* file_tree[:500]
FirstN(seq, n) == SubSeq(seq, 1, IF Len(seq) < n THEN Len(seq) ELSE n)

\* lines 166-172: what analyze() leaves once pass 1 has given p1, pass 2 run
AfterScan(p1, files) ==
    [DependencyPass(p1.file_map,
                    [graph |-> p1.graph, raised |-> FALSE, log |-> p1.log], 1)
        EXCEPT !.raised = FALSE]
    @@ [file_map       |-> p1.file_map,
        tree_structure |-> FirstN(files, TreeLimit),
        walked         |-> {files[i] : i \in 1..Len(files)}]

\* analyze() that starts from an empty file_map and an empty graph
AnalyzeFrom_Fresh(fm, g, tree) ==
    IF ~root_exists
    THEN [file_map |-> << >>, graph |-> EmptyGraph, tree_structure |-> tree,
          walked |-> {}, raised |-> FALSE, log |-> << >>]
    ELSE AfterScan(ScanPass(<< >>, EmptyGraph, Collected(disk), << >>), Collected(disk))

\* analyze() on a session holding fm, g and tree: what it leaves, and the
\* steps it took (log)
AnalyzeFrom(fm, g, tree) ==
    IF ~root_exists
    THEN [file_map |-> fm, graph |-> g, tree_structure |-> tree,
          walked |-> {}, raised |-> FALSE, log |-> << >>]
    ELSE AfterScan(ScanPass(fm, g, Collected(disk), << >>), Collected(disk))

(***************************************************************************)
(* RepoAnalyzer.get_context.  The returned string is modelled as the       *)
(* sequence of the pieces appended to it, each with its length.            *)
(***************************************************************************)
UpperCase == "ABCDEFGHIJKLMNOPQRSTUVWXYZ"

LowerCase == "abcdefghijklmnopqrstuvwxyz"

\* str.lower()
RECURSIVE Lower(_)
Lower(s) ==
    IF Len(s) = 0 THEN ""
    ELSE LET c == Char(s, 1)
             i == IndexOf(UpperCase, c)
         IN  (IF i = 0 THEN c ELSE Char(LowerCase, i)) \o Lower(Tail(s))

\* sub in s
Contains(s, sub) ==
    \E i \in 1..(Len(s) - Len(sub) + 1) : SubSeq(s, i, i + Len(sub) - 1) = sub

ContainsAny(s, subs) == \E sub \in subs : Contains(s, sub)

\* n.split('::')[0]
BeforeColons(n) ==
    IF Contains(n, "::")
    THEN SubSeq(n, 1, (CHOOSE i \in 1..Len(n) :
                          /\ SubSeq(n, i, i + 1) = "::"
                          /\ \A j \in 1..(i - 1) : SubSeq(n, j, j + 1) # "::") - 1)
    ELSE n

RECURSIVE SumLen(_)
SumLen(items) == IF Len(items) = 0 THEN 0 ELSE Head(items).len + SumLen(Tail(items))

\* len(context)
ContextLen(ctx) == SumLen(ctx)

Marker == [kind |-> "marker", header |-> "", len |-> MarkerLen]

Chunk(header, n) == [kind |-> "chunk", header |-> header, len |-> ChunkOverhead + Len(header) + n]

\* add_to_context(header, content) with the ceiling max in force
AddToContext(ctx, max, header, n) ==
    IF ContextLen(ctx) >= max THEN [ctx |-> ctx, ok |-> FALSE]
    ELSE IF ContextLen(ctx) + Chunk(header, n).len > max
         THEN [ctx |-> Append(ctx, Marker), ok |-> FALSE]
         ELSE [ctx |-> Append(ctx, Chunk(header, n)), ok |-> TRUE]

\* for c in cands: if not add_to_context(c.header, c.content): break
RECURSIVE AddUntilRejected(_, _, _)
AddUntilRejected(ctx, max, cands) ==
    IF Len(cands) = 0 THEN ctx
    ELSE LET r == AddToContext(ctx, max, Head(cands).header, Head(cands).len)
         IN  IF r.ok THEN AddUntilRejected(r.ctx, max, Tail(cands)) ELSE r.ctx

\* the named files that are in fm, in the order of names
NamedCandidates(fm, names) ==
    LET sel == SelectSeq(names, LAMBDA f : FmHas(fm, f))
    IN  [i \in 1..Len(sel) |-> [header |-> sel[i], len |-> Content[FmGet(fm, sel[i])].len]]

\* len(self.tree_structure)
TreeLen(tree) ==
    IF Len(tree) = 0 THEN 0
    ELSE SumLen([i \in 1..Len(tree) |-> [len |-> Len(tree[i])]]) + Len(tree) - 1

IsComponent(path, cid) ==
    /\ EndsWith(path, ".tsx")
    /\ ~Contains(path, ".test.")
    /\ Content[cid].component

SetupFiles ==
    << "README.md", "package.json", "requirements.txt", "pyproject.toml", "Pipfile",
       "docker-compose.yml", "Dockerfile", ".env.example", ".env.sample",
       "tsconfig.json", "vite.config.ts" >>

IsSetupRelated(path, cid) ==
    /\ ContainsAny(Lower(path), {"env", "config", "setup", "install"})
    /\ EndsWithAny(path, {".md", ".txt", ".json", ".ts", ".js", ".yml", ".yaml"})

IsEntryPoint(path, cid) ==
    ContainsAny(Lower(path), {"controller", "service", "usecase", "page.tsx"})

\* the test a loop over file_map.items() applies to an entry
Keeps(keep, path, cid) ==
    CASE keep = "component" -> IsComponent(path, cid)
      [] keep = "setup"     -> IsSetupRelated(path, cid)
      [] keep = "sequence"  -> IsEntryPoint(path, cid)

\* the entries of fm that pass the test keep, as candidates under the header prefix
Candidates(fm, prefix, keep) ==
    LET sel == SelectSeq(fm, LAMBDA e : Keeps(keep, e[1], e[2]))
    IN  [i \in 1..Len(sel) |->
            [header |-> prefix \o sel[i][1], len |-> Content[sel[i][2]].len]]

ArchFiles ==
    << "package.json", "tsconfig.json", "vite.config.ts", "docker-compose.yml", "Dockerfile" >>

\* the files of the entity nodes
EntityFiles(g) == {BeforeColons(n) : n \in {m \in DOMAIN g.nodes : NodeType(g, m) = "entity"}}

FmLen(fm, f) == IF FmHas(fm, f) THEN Content[FmGet(fm, f)].len ELSE 0

\* sorted(files, key=len of content): every order the sort can give, the
\* order of equal keys being that of a set's iteration
SortedByLen(fm, files) ==
    {sq \in [1..Cardinality(files) -> files] :
        /\ \A f \in files : \E i \in DOMAIN sq : sq[i] = f
        /\ \A i, j \in DOMAIN sq : i < j => FmLen(fm, sq[i]) <= FmLen(fm, sq[j])}

ErdCandidates(fm, order) ==
    LET sel == SelectSeq(order, LAMBDA f : FmHas(fm, f))
    IN  [i \in 1..Len(sel) |->
            [header |-> "Entity File: " \o sel[i], len |-> Content[FmGet(fm, sel[i])].len]]

(***************************************************************************)
(* get_context('api_ref')                                                  *)
(***************************************************************************)
\* the order of str comparison on the characters type names are made of
CharOrder == "-0123456789ABCDEFGHIJKLMNOPQRSTUVWXYZ_abcdefghijklmnopqrstuvwxyz"

RECURSIVE StrLess(_, _)
StrLess(a, b) ==
    IF Len(b) = 0 THEN FALSE
    ELSE IF Len(a) = 0 THEN TRUE
    ELSE IF Char(a, 1) = Char(b, 1) THEN StrLess(Tail(a), Tail(b))
    ELSE IndexOf(CharOrder, Char(a, 1)) < IndexOf(CharOrder, Char(b, 1))

\* sorted(names)
Sorted(names) ==
    CHOOSE sq \in [1..Cardinality(names) -> names] :
        \A i, j \in DOMAIN sq : i < j => StrLess(sq[i], sq[j])

IsUpper(c) == IndexOf(UpperCase, c) # 0

\* re.sub(r'(?<!^)(?=[A-Z])', '-', type_name).lower()
RECURSIVE KebabFrom(_, _)
KebabFrom(s, i) ==
    IF i > Len(s) THEN ""
    ELSE (IF i > 1 /\ IsUpper(Char(s, i)) THEN "-" ELSE "") \o Lower(Char(s, i))
            \o KebabFrom(s, i + 1)

\* s.replace(sub, '')
RECURSIVE RemoveAll(_, _)
RemoveAll(s, sub) ==
    IF Len(s) = 0 THEN ""
    ELSE (IF StartsWith(s, sub) THEN "" ELSE Char(s, 1))
            \o RemoveAll(IF StartsWith(s, sub) THEN SubSeq(s, Len(sub) + 1, Len(s))
                          ELSE Tail(s), sub)

\* s.strip('-_')
RECURSIVE StripDashes(_)
StripDashes(s) ==
    IF Len(s) > 0 /\ (Char(s, 1) \in {"-", "_"} \/ Char(s, Len(s)) \in {"-", "_"})
    THEN StripDashes(IF Char(s, 1) \in {"-", "_"} THEN Tail(s)
                     ELSE SubSeq(s, 1, Len(s) - 1))
    ELSE s

TypeSuffixes == {"request", "response", "dto", "model", "payload", "input", "output"}

GenerateTypeNameVariants(type_name) ==
    LET all == {type_name, KebabFrom(type_name, 1), Lower(type_name)}
               \cup (IF StartsWith(type_name, "I") /\ Len(type_name) > 1
                        /\ IsUpper(Char(type_name, 2))
                     THEN {Tail(type_name)} ELSE {})
               \cup {StripDashes(RemoveAll(Lower(type_name), sfx)) : sfx \in TypeSuffixes}
    IN  {v \in all : Len(v) > 0}

\* find_type_definition_files(type_name, included_files)
FindTypeDefinitionFiles(fm, type_name, included) ==
    LET variants == GenerateTypeNameVariants(type_name)
        Decl(e)    == type_name \in Content[e[2]].decls
        Hint(e)    == \E v \in variants : Contains(Lower(e[1]), v)
        Mention(e) == \E v \in variants : Len(v) > 2 /\ v \in Content[e[2]].mentions
        Score(e)   == (IF Decl(e) THEN 3 ELSE 0) + (IF Hint(e) THEN 2 ELSE 0)
                      + (IF Mention(e) THEN 1 ELSE 0)
        hits == SelectSeq(fm, LAMBDA e :
                    /\ e[1] \notin included
                    /\ EndsWithAny(e[1], {".ts", ".tsx", ".d.ts", ".js"})
                    /\ (Decl(e) \/ (Hint(e) /\ Mention(e))))
        ByScore(k) == SelectSeq(hits, LAMBDA e : Score(e) = k)
        ordered == ByScore(6) \o ByScore(5) \o ByScore(4) \o ByScore(3)
    IN  [i \in 1..Len(ordered) |-> ordered[i][1]]

\* lines 261-262: what the resolve result r does to st = [raised, files]
AddResolved(st, r) ==
    IF r.raised THEN [st EXCEPT !.raised = TRUE]
    ELSE IF r.found /\ \A k \in DOMAIN st.files : st.files[k] # r.path
    THEN [st EXCEPT !.files = Append(@, r.path)]
    ELSE st

\* resolve_barrel_exports(file_path, content), from the i-th export on
RECURSIVE BarrelFrom(_, _, _, _, _)
BarrelFrom(fm, file_path, exports, i, st) ==
    IF st.raised \/ i > Len(exports) THEN st
    ELSE BarrelFrom(fm, file_path, exports, i + 1,
            AddResolved(st, ResolveImportPath(tsconfig_paths, tsconfig_base_url, fm, disk,
                                              root_exists, file_path, exports[i])))

ResolveBarrelExports(fm, file_path, cid) ==
    BarrelFrom(fm, file_path, Content[cid].exports, 1, [raised |-> FALSE, files |-> << >>])

IsIndexFile(path) == EndsWithAny(path, {"index.ts", "index.tsx", "index.js"})

MaxHops == 4

MaxDepth == 3

\* the loop of find_type_via_barrel_chain over targets, the result of
\* resolve_barrel_exports for one barrel file
RECURSIVE BarrelTargets(_, _, _, _, _, _)
BarrelTargets(fm, type_name, targets, hop, visited, st) ==
    IF targets.raised THEN [st EXCEPT !.raised = TRUE]
    ELSE IF Len(targets.files) = 0 THEN st
    ELSE BarrelTargets(fm, type_name, [targets EXCEPT !.files = Tail(@)], hop, visited,
            LET target == Head(targets.files)
            IN  IF target \in visited \/ ~FmHas(fm, target) THEN st
                ELSE IF type_name \in Content[FmGet(fm, target)].decls
                THEN [st EXCEPT !.matches = Append(@, target)]
                ELSE IF IsIndexFile(target)
                THEN [st EXCEPT !.queue = Append(@, <<target, hop + 1>>)]
                ELSE st)

\* the while loop of find_type_via_barrel_chain; st.expanded lists the
\* <<file, hop>> pairs that passed the test of line 353, in order
RECURSIVE BarrelChain(_, _, _, _)
BarrelChain(fm, type_name, visited, st) ==
    IF st.raised \/ Len(st.queue) = 0 THEN st
    ELSE LET current == Head(st.queue)[1]
             hop     == Head(st.queue)[2]
             popped  == [st EXCEPT !.queue = Tail(@)]
             skip    == current \in visited \/ hop > MaxHops
         IN  BarrelChain(fm, type_name,
                 IF skip THEN visited ELSE visited \cup {current},
                 IF skip THEN popped
                 ELSE BarrelTargets(fm, type_name,
                         IF FmHas(fm, current)
                         THEN ResolveBarrelExports(fm, current, FmGet(fm, current))
                         ELSE [raised |-> FALSE, files |-> << >>],
                         hop, visited \cup {current},
                         [popped EXCEPT !.expanded = Append(@, <<current, hop>>)]))

\* the sequence without its repetitions and without the members of drop
RECURSIVE Dedup(_, _)
Dedup(sq, drop) ==
    IF Len(sq) = 0 THEN << >>
    ELSE IF Head(sq) \in drop THEN Dedup(Tail(sq), drop)
    ELSE <<Head(sq)>> \o Dedup(Tail(sq), drop \cup {Head(sq)})

\* find_type_via_barrel_chain(type_name, included_files)
FindTypeViaBarrelChain(fm, type_name, included) ==
    LET barrels == SelectSeq(fm, LAMBDA e : IsIndexFile(e[1]) /\ e[1] \notin included)
        st == BarrelChain(fm, type_name, {},
                  [queue |-> [i \in 1..Len(barrels) |-> <<barrels[i][1], 0>>],
                   matches |-> << >>, raised |-> FALSE, expanded |-> << >>])
    IN  [raised |-> st.raised, files |-> Dedup(st.matches, included)]

LooksLikeTypeFile(path) ==
    ContainsAny(Lower(path),
                {"dto", "model", "interface", "type", "entity", "request", "response"})

Dep(path, depth, cid) == [path |-> path, depth |-> depth, len |-> Content[cid].types_len]

\* the loop of get_deep_dependencies over the barrel targets of a neighbor
RECURSIVE DeepTargets(_, _, _, _)
DeepTargets(fm, targets, depth, st) ==
    IF Len(targets) = 0 THEN st
    ELSE DeepTargets(fm, Tail(targets), depth,
            IF Head(targets) \in st.visited \/ ~FmHas(fm, Head(targets)) THEN st
            ELSE [st EXCEPT !.visited = @ \cup {Head(targets)},
                            !.queue = Append(@, <<Head(targets), depth + 1>>),
                            !.collected = Append(@, Dep(Head(targets), depth + 1,
                                                        FmGet(fm, Head(targets))))])

\* lines 395-418: the neighbor neighbor_path, whose barrel exports are b
DeepVisit(fm, neighbor_path, depth, st, b) ==
    LET looks_like_type_file == LooksLikeTypeFile(neighbor_path)
        is_barrel_file == IsIndexFile(neighbor_path) \/ Len(b.files) > 0
        s1 == [st EXCEPT !.visited = @ \cup {neighbor_path},
                         !.queue = Append(@, <<neighbor_path, depth + 1>>)]
    IN  IF b.raised THEN [st EXCEPT !.raised = TRUE]
        ELSE IF ~looks_like_type_file /\ ~is_barrel_file THEN st
        ELSE DeepTargets(fm, b.files, depth,
                IF looks_like_type_file \/ EndsWithAny(neighbor_path, {".d.ts", "types.ts"})
                THEN [s1 EXCEPT !.collected =
                        Append(@, Dep(neighbor_path, depth + 1, FmGet(fm, neighbor_path)))]
                ELSE s1)

\* the loop over the successors without the test of line 392 against visited
RECURSIVE DeepNeighbors_NoVisited(_, _, _, _)
DeepNeighbors_NoVisited(fm, neighbors, depth, st) ==
    IF st.raised \/ Len(neighbors) = 0 THEN st
    ELSE DeepNeighbors_NoVisited(fm, Tail(neighbors), depth,
            LET neighbor_path == BeforeColons(Head(neighbors))
            IN  IF ~FmHas(fm, neighbor_path) THEN st
                ELSE DeepVisit(fm, neighbor_path, depth, st,
                               ResolveBarrelExports(fm, neighbor_path,
                                                    FmGet(fm, neighbor_path))))

\* the loop of get_deep_dependencies over the successors of the current file
RECURSIVE DeepNeighbors(_, _, _, _)
DeepNeighbors(fm, neighbors, depth, st) ==
    IF st.raised \/ Len(neighbors) = 0 THEN st
    ELSE DeepNeighbors(fm, Tail(neighbors), depth,
            LET neighbor_path == BeforeColons(Head(neighbors))
            IN  IF neighbor_path \in st.visited \/ ~FmHas(fm, neighbor_path) THEN st
                ELSE DeepVisit(fm, neighbor_path, depth, st,
                               ResolveBarrelExports(fm, neighbor_path,
                                                    FmGet(fm, neighbor_path))))

\* the while loop of get_deep_dependencies; st.expanded lists the
\* <<file, depth>> pairs that passed the test of line 387, in order
RECURSIVE DeepLoop(_, _, _)
DeepLoop(fm, g, st) ==
    IF st.raised \/ Len(st.queue) = 0 THEN st
    ELSE LET current_file == Head(st.queue)[1]
             depth        == Head(st.queue)[2]
             popped       == [st EXCEPT !.queue = Tail(@)]
         IN  DeepLoop(fm, g,
                 IF depth >= MaxDepth \/ current_file \notin Nodes(g) THEN popped
                 ELSE DeepNeighbors(fm, Successors(g, current_file), depth,
                         [popped EXCEPT !.expanded = Append(@, <<current_file, depth>>)]))

\* get_deep_dependencies(start_files, max_depth=3)
GetDeepDependencies(fm, g, start_files) ==
    DeepLoop(fm, g,
        [queue |-> [i \in 1..Len(start_files) |-> <<start_files[i], 0>>],
         visited |-> {start_files[i] : i \in 1..Len(start_files)},
         collected |-> << >>, raised |-> FALSE, expanded |-> << >>])

IsPrimaryFile(path, cid) ==
    /\ EndsWithAny(path, {".ts", ".js"})
    /\ ContainsAny(Lower(path), {"service", "api", "controller"})
    /\ ~Contains(path, ".spec.")

BuiltinTypes ==
    {"Promise", "Observable", "string", "number", "boolean", "void", "any", "unknown"}

Digits == "0123456789"

\* str(n)
RECURSIVE ToStr(_)
ToStr(n) == IF n < 10 THEN Char(Digits, n + 1) ELSE ToStr(n \div 10) \o Char(Digits, (n % 10) + 1)

\* for path in paths: add the path's types under the header or break
RECURSIVE AddModels(_, _, _, _, _)
AddModels(fm, st, max, label, paths) ==
    IF Len(paths) = 0 THEN st
    ELSE LET path == Head(paths)
             r == AddToContext(st.ctx, max, label \o path,
                               Content[FmGet(fm, path)].types_len)
         IN  IF r.ok
             THEN AddModels(fm, [st EXCEPT !.ctx = r.ctx, !.included = @ \cup {path}],
                            max, label, Tail(paths))
             ELSE [st EXCEPT !.ctx = r.ctx]

\* lines 443-450: the hits of one type name, added under the header label
AddHits(fm, st, max, label, primary_hits, barrel) ==
    IF barrel.raised THEN [st EXCEPT !.raised = TRUE]
    ELSE AddModels(fm, st, max, label,
            primary_hits \o SelectSeq(barrel.files,
                                LAMBDA b : \A k \in DOMAIN primary_hits :
                                              primary_hits[k] # b))

\* the loops over the sorted type names, of priority 1 and of the final pass
RECURSIVE TypeLoop(_, _, _, _, _, _)
TypeLoop(fm, st, max, types, label, skip) ==
    IF st.raised \/ Len(types) = 0 THEN st
    ELSE IF ContextLen(st.ctx) >= max THEN st
    ELSE TypeLoop(fm,
            IF Head(types) \in skip THEN st
            ELSE AddHits(fm, st, max, label \o " (" \o Head(types) \o "): ",
                         FindTypeDefinitionFiles(fm, Head(types), st.included),
                         FindTypeViaBarrelChain(fm, Head(types), st.included)),
            max, Tail(types), label, skip)

\* priority 2: the graph-resolved dependencies, deep = [collected, raised]
RECURSIVE AddDeps(_, _, _)
AddDeps(st, max, deep) ==
    IF st.raised THEN st
    ELSE IF deep.raised THEN [st EXCEPT !.raised = TRUE]
    ELSE IF Len(deep.collected) = 0 THEN st
    ELSE IF ContextLen(st.ctx) >= max THEN st
    ELSE LET d    == Head(deep.collected)
             rest == [deep EXCEPT !.collected = Tail(@)]
         IN  IF d.path \in st.included THEN AddDeps(st, max, rest)
             ELSE LET r == AddToContext(st.ctx, max,
                               "Dependency (D" \o ToStr(d.depth) \o "): " \o d.path, d.len)
                  IN  IF r.ok
                      THEN AddDeps([st EXCEPT !.ctx = r.ctx, !.included = @ \cup {d.path}],
                                   max, rest)
                      ELSE [st EXCEPT !.ctx = r.ctx]

\* priority 3: the entry files
RECURSIVE AddEntries(_, _, _, _)
AddEntries(fm, st, max, paths) ==
    IF st.raised \/ Len(paths) = 0 THEN st
    ELSE IF ContextLen(st.ctx) >= max THEN st
    ELSE LET path == Head(paths)
             r == AddToContext(st.ctx, max, "Entry: " \o path, Content[FmGet(fm, path)].len)
         IN  IF r.ok
             THEN AddEntries(fm, [st EXCEPT !.ctx = r.ctx, !.included = @ \cup {path}],
                             max, Tail(paths))
             ELSE [st EXCEPT !.ctx = r.ctx]

RefsOf(fm, paths) ==
    UNION {IF FmHas(fm, p) THEN Content[FmGet(fm, p)].refs ELSE {} : p \in paths}

\* the final pass: the types referenced by the files included so far
FinalPass(fm, st, max, referenced_types) ==
    TypeLoop(fm, st, max, Sorted(referenced_types \cup RefsOf(fm, st.included)),
             "Found via Search", {})

\* the 'api_ref' branch: [ctx, included, raised]
ApiRefContext(fm, g) ==
    LET max == MAX_CHARS_API_REF
        primary == SelectSeq(fm, LAMBDA e : IsPrimaryFile(e[1], e[2]))
        primary_files == [i \in 1..Len(primary) |-> primary[i][1]]
        referenced_types == RefsOf(fm, {primary[i][1] : i \in 1..Len(primary)})
    IN  FinalPass(fm,
            AddEntries(fm,
                AddDeps(TypeLoop(fm, [ctx |-> << >>, included |-> {}, raised |-> FALSE],
                                 max, Sorted(referenced_types), "Dependency Model",
                                 BuiltinTypes),
                        max, GetDeepDependencies(fm, g, primary_files)),
                max, primary_files),
            max, referenced_types)

\* the module types other than 'api_ref' and 'erd': one result each
SimpleContext(fm, tree, module_type) ==
    CASE module_type = "components" ->
            AddUntilRejected(<< >>, MAX_CHARS, Candidates(fm, "Component: ", "component"))
      [] module_type = "root" ->
            LET r1 == AddToContext(<< >>, MAX_CHARS, "package.json", FmLen(fm, "package.json"))
                r2 == AddToContext(r1.ctx, MAX_CHARS, "Project Structure", TreeLen(tree))
            IN  r2.ctx
      [] module_type = "setup" ->
            LET c1 == AddUntilRejected(<< >>, MAX_CHARS, NamedCandidates(fm, SetupFiles))
            IN  AddUntilRejected(c1, MAX_CHARS, Candidates(fm, "Setup Related: ", "setup"))
      [] module_type = "sequence" ->
            AddUntilRejected(<< >>, MAX_CHARS, Candidates(fm, "Entry Point: ", "sequence"))
      [] module_type = "arch" ->
            AddUntilRejected(<< [kind |-> "tree", header |-> "", len |-> TreeLen(tree) + 1] >>,
                             MAX_CHARS, NamedCandidates(fm, ArchFiles))
      [] OTHER -> << >>

\* every way get_context(module_type) can end: the string it returns, or
\* the exception of a resolve that leaves it
GetContextResults(fm, g, tree, module_type) ==
    IF module_type = "erd"
    THEN {[ctx |-> AddUntilRejected(<< >>, MAX_CHARS, ErdCandidates(fm, order)),
           raised |-> FALSE] : order \in SortedByLen(fm, EntityFiles(g))}
    ELSE IF module_type = "api_ref"
    THEN {[ctx |-> IF r.raised THEN << >> ELSE r.ctx, raised |-> r.raised] :
             r \in {ApiRefContext(fm, g)}}
    ELSE {[ctx |-> SimpleContext(fm, tree, module_type), raised |-> FALSE]}

\* the ceiling in force for a module type
Ceiling(module_type) == IF module_type = "api_ref" THEN MAX_CHARS_API_REF ELSE MAX_CHARS

(***************************************************************************)
(* RepoAnalyzer.export_knowledge_graph                                     *)
(***************************************************************************)
ExportKnowledgeGraph(g) ==
    [node \in Nodes(g) |->
        [id       |-> node,
         name     |-> AttrGet(g.nodes[node], "name", Basename(node)),
         kind     |-> AttrGet(g.nodes[node], "kind",
                              IF NodeType(g, node) = "file" THEN "file" ELSE "variable"),
         filePath |-> AttrGet(g.nodes[node], "filePath", node),
         line     |-> AttrGet(g.nodes[node], "line", 1),
         calledBy |-> Predecessors(g, node),
         calls    |-> Successors(g, node)]]

(***************************************************************************)
(* The repositories and the requests of the model                          *)
(***************************************************************************)
MaxOps == 3

MaxChanges == 1

MaxRequests == 4

File(cid) == [cid |-> cid, readable |-> TRUE]

\* a repository: the content of each of its files, by relative path
Layout(pairs) ==
    [p \in {Abs(pairs[i][1]) : i \in 1..Len(pairs)} |->
        File(pairs[CHOOSE i \in 1..Len(pairs) : Abs(pairs[i][1]) = p][2])]

Layouts ==
    { Layout(<< <<"README.md", "readme_small">>, <<"package.json", "pkg_small">>,
                <<"tsconfig.json", "tsc_alias">>,
                <<"node_modules/pkg/index.js", "pkg_idx">>,
                <<"src/App.tsx", "app">>, <<"src/style.css", "css">>,
                <<"src/user.service.ts", "svc1">>,
                <<"src/dto/user.dto.ts", "dto1">>,
                <<"src/utils/math.js", "math_js">>, <<"src/utils/math.ts", "math_ts">>,
                <<"/etc/hosts", "hosts">> >>),
      Layout(<< <<"README.md", "readme_big">>, <<"package.json", "pkg_big">>,
                <<"tsconfig.json", "tsc_url">>,
                <<"src/style.css", "css">>,
                <<"src/user.service.ts", "svc2">>,
                <<"src/dto/user.dto.ts", "dto1">>,
                <<"src/models/index.ts", "barrel1">>,
                <<"src/models/user.model.ts", "model1">>,
                <<"src/utils/math.js", "math_js">> >>),
      Layout(<< <<"package.json", "pkg_small">>, <<"tsconfig.json", "tsc_null">>,
                <<"src/App.tsx", "app2">>,
                <<"src/user.service.ts", "svc2">>,
                <<"src/dto/user.dto.ts", "dto1">>,
                <<"src/models/index.ts", "barrel1">>,
                <<"src/models/user.model.ts", "model1">> >>),
      Layout(<< <<"tsconfig.json", "tsc_dot">>,
                <<"src/user.service.ts", "svc1">>,
                <<"src/dto/user.dto.ts", "dto1">>,
                <<"src/utils/math.js", "math_js">> >>),
      Layout(<< <<"tsconfig.json", "tsc_bad">>,
                <<"node_modules/pkg/index.js", "pkg_idx">>,
                <<"src/user.service.ts", "broken">>,
                <<"src/dto/user.dto.ts", "dto1">> >>),
      Layout(<< <<"README.md", "readme_small">>, <<"package.json", "pkg_big">>,
                <<"tsconfig.json", "tsc_plain">>,
                <<"src/style.css", "css">>, <<"src/style.css.ts", "css_ts">>,
                <<"src/user.service.ts", "svc2">> >>),
      Layout(<< <<"tsconfig.json", "tsc_cmt">>,
                <<"src/user.service.ts", "svc3">>,
                <<"src/dto/user.dto.ts", "dto2">>,
                <<"src/models/index.ts", "barrel2">>,
                <<"src/models/user.model.ts", "model2">>,
                <<"src/models/nested/index.ts", "barrel3">>,
                <<"src/models/nested/deep.model.ts", "deep1">> >>),
      Layout(<< <<"tsconfig.json", "tsc_glob">>,
                <<"src/App.tsx", "app">>, <<"src/utils/math.ts", "math_ts">> >>),
      Layout(<< >>) }

\* what the environment does to the repository between two requests
FsEdits ==
    { [path |-> "src/dto/user.dto.ts", cid |-> "absent", readable |-> TRUE],
      [path |-> "src/user.service.ts", cid |-> "svc2", readable |-> TRUE],
      [path |-> "src/user.service.ts", cid |-> "svc1", readable |-> TRUE],
      [path |-> "src/utils/math.ts", cid |-> "math_ts", readable |-> FALSE],
      [path |-> "README.md", cid |-> "absent", readable |-> TRUE] }

ApplyEdit(d, e) ==
    IF e.cid = "absent"
    THEN [p \in DOMAIN d \ {Abs(e.path)} |-> d[p]]
    ELSE [p \in DOMAIN d \cup {Abs(e.path)} |->
            IF p = Abs(e.path) THEN [cid |-> e.cid, readable |-> e.readable] ELSE d[p]]

ModuleTypes ==
    {"api_ref", "components", "erd", "root", "setup", "sequence", "arch", "other"}

\* request.file_path of the /reanalyze requests
ReanalyzePaths ==
    {"src/user.service.ts", "node_modules/pkg/index.js", "src/dto/user.dto.ts", "src",
     "src/../package.json", "/etc/hosts"}

NoResolve == [file |-> "", import |-> "", raised |-> FALSE, pre |-> "",
              found |-> FALSE, path |-> ""]

(***************************************************************************)
(* The session: RepoAnalyzer(repo_path), then requests                     *)
(***************************************************************************)
\* the state RepoAnalyzer.__init__ leaves
Constructed(d, rootExists) ==
    /\ disk = d
    /\ root_exists = rootExists
    /\ ts_available \in BOOLEAN
    /\ tsconfig_paths = LoadTsconfig(d, rootExists).paths
    /\ tsconfig_base_url = LoadTsconfig(d, rootExists).base_url
    /\ file_map = << >>
    /\ tree_structure = << >>
    /\ graph = EmptyGraph
    /\ op = [name |-> "init", arg |-> "", outcome |-> "ok"]
    /\ context = << >>
    /\ resolved = NoResolve
    /\ walked = {}
    /\ n_ops = 0
    /\ n_changes = 0
    /\ active = FALSE
    /\ events = << Event("load_tsconfig", "", "") >>
    /\ exported = [n \in {} |-> NoAttrs]
    /\ active_analyzer = [by |-> 0, repo |-> ""]
    /\ active_repo_id = ""
    /\ active_doc_parts = [by |-> 0, repo |-> ""]
    /\ cache_file = [exists |-> FALSE, docParts |-> [by |-> 0, repo |-> ""],
                     repoPath |-> "", repoId |-> ""]
    /\ pending = {}
    /\ n_requests = 0

Init == \E d \in Layouts : \E r \in BOOLEAN : (DOMAIN d # {} => r) /\ Constructed(d, r)

Install(r) ==
    /\ file_map' = r.file_map
    /\ graph' = r.graph
    /\ tree_structure' = r.tree_structure
    /\ walked' = r.walked
    /\ events' = << Head(events) >> \o r.log

\* analyzer.analyze()
Analyze ==
    /\ n_ops < MaxOps
    /\ \E r \in {AnalyzeFrom(file_map, graph, tree_structure)} :
          /\ Install(r)
          /\ op' = [name |-> "analyze", arg |-> "",
                    outcome |-> IF r.raised THEN "raised" ELSE "ok"]
    /\ n_ops' = n_ops + 1
    /\ context' = << >>
    /\ active' = TRUE
    /\ resolved' = NoResolve
    /\ UNCHANGED <<active_analyzer, active_repo_id, active_doc_parts, cache_file,
                   pending, n_requests>>
    /\ UNCHANGED <<root_exists, disk, ts_available, tsconfig_paths, tsconfig_base_url,
                   n_changes, exported>>

\* POST /reanalyze
Reanalyze(file_path) ==
    /\ n_ops < MaxOps
    /\ active
    /\ LET full_path == PathJoin(RepoPath, file_path)
       IN  IF ~OsExists(disk, root_exists, full_path)
           THEN /\ op' = [name |-> "reanalyze", arg |-> file_path, outcome |-> "404"]
                /\ UNCHANGED <<file_map, graph, tree_structure, walked, events>>
           ELSE IF ~OsIsFile(disk, root_exists, full_path)
                   \/ ~disk[FileKey(full_path)].readable
           THEN \* open() raises
                /\ op' = [name |-> "reanalyze", arg |-> file_path, outcome |-> "500"]
                /\ UNCHANGED <<file_map, graph, tree_structure, walked, events>>
           ELSE \* ingest_current_state is no method of RepoAnalyzer: the
                \* call raises AttributeError after analyze() has run
                /\ Install(AnalyzeFrom(FmPut(file_map, file_path,
                                             disk[FileKey(full_path)].cid),
                                       graph, tree_structure))
                /\ op' = [name |-> "reanalyze", arg |-> file_path, outcome |-> "500"]
    /\ n_ops' = n_ops + 1
    /\ context' = << >>
    /\ resolved' = NoResolve
    /\ UNCHANGED <<active_analyzer, active_repo_id, active_doc_parts, cache_file,
                   pending, n_requests>>
    /\ UNCHANGED <<root_exists, disk, ts_available, tsconfig_paths, tsconfig_base_url,
                   n_changes, active, exported>>

\* analyzer.get_context(module_type)
GetContext(module_type) ==
    /\ n_ops < MaxOps
    /\ \E r \in GetContextResults(file_map, graph, tree_structure, module_type) :
          /\ context' = r.ctx
          /\ op' = [name |-> "get_context", arg |-> module_type,
                    outcome |-> IF r.raised THEN "raised" ELSE "ok"]
    /\ n_ops' = n_ops + 1
    /\ UNCHANGED <<active_analyzer, active_repo_id, active_doc_parts, cache_file,
                   pending, n_requests>>
    /\ UNCHANGED <<root_exists, disk, ts_available, tsconfig_paths, tsconfig_base_url,
                   file_map, tree_structure, graph, walked, n_changes, active,
                   events, exported>>
    /\ resolved' = NoResolve

\* the repository changes on disk
FsChange(e) ==
    /\ n_changes < MaxChanges
    /\ root_exists
    /\ disk' = ApplyEdit(disk, e)
    /\ disk' # disk
    /\ n_changes' = n_changes + 1
    /\ op' = [name |-> "fs_change", arg |-> e.path, outcome |-> "ok"]
    /\ context' = << >>
    /\ UNCHANGED <<active_analyzer, active_repo_id, active_doc_parts, cache_file,
                   pending, n_requests>>
    /\ UNCHANGED <<root_exists, ts_available, tsconfig_paths, tsconfig_base_url,
                   file_map, tree_structure, graph, walked, n_ops, active,
                   events, exported>>
    /\ resolved' = NoResolve

\* the repository is removed
RemoveRoot ==
    /\ n_changes < MaxChanges
    /\ root_exists
    /\ root_exists' = FALSE
    /\ disk' = [p \in {q \in DOMAIN disk : ~StartsWith(q, RepoPath \o "/")} |-> disk[p]]
    /\ n_changes' = n_changes + 1
    /\ op' = [name |-> "fs_change", arg |-> "", outcome |-> "ok"]
    /\ context' = << >>
    /\ UNCHANGED <<active_analyzer, active_repo_id, active_doc_parts, cache_file,
                   pending, n_requests>>
    /\ UNCHANGED <<ts_available, tsconfig_paths, tsconfig_base_url,
                   file_map, tree_structure, graph, walked, n_ops, active,
                   events, exported>>
    /\ resolved' = NoResolve

\* self._resolve_import_path(current_file, import_str)
Resolve(current_file, import_str) ==
    /\ n_ops < MaxOps
    /\ n_ops' = n_ops + 1
    /\ \E r \in {ResolveImportPath(tsconfig_paths, tsconfig_base_url, file_map, disk,
                                     root_exists, current_file, import_str)} :
          resolved' = [file |-> current_file, import |-> import_str,
                       raised |-> r.raised, pre |-> r.pre, found |-> r.found,
                       path |-> r.path]
    /\ op' = [name |-> "resolve", arg |-> import_str,
              outcome |-> IF resolved'.raised THEN "raised" ELSE "ok"]
    /\ context' = << >>
    /\ UNCHANGED <<active_analyzer, active_repo_id, active_doc_parts, cache_file,
                   pending, n_requests>>
    /\ UNCHANGED <<root_exists, disk, ts_available, tsconfig_paths, tsconfig_base_url,
                   file_map, tree_structure, graph, walked, n_changes, active,
                   events, exported>>

\* analyzer.export_knowledge_graph()
Export ==
    /\ n_ops < MaxOps
    /\ n_ops' = n_ops + 1
    /\ exported' = ExportKnowledgeGraph(graph)
    /\ op' = [name |-> "export", arg |-> "", outcome |-> "ok"]
    /\ context' = << >>
    /\ resolved' = NoResolve
    /\ UNCHANGED <<active_analyzer, active_repo_id, active_doc_parts, cache_file,
                   pending, n_requests>>
    /\ UNCHANGED <<root_exists, disk, ts_available, tsconfig_paths, tsconfig_base_url,
                   file_map, tree_structure, graph, walked, n_changes, active, events>>

\* the files a resolve is asked for
ResolveFiles ==
    {"a/b/c.ts", "c.ts", "src/user.service.ts", "src/dto/user.dto.ts", "/abs/x.ts"}

\* the import strings a resolve is asked for
ImportStrings ==
    { "./helper", "../helper", "./dto/user.dto", "./utils/math", "../utils/math",
      "./x/../utils/math", "./user.service.ts", "./style.css", "./models", "./lib/x",
      "./lib/../dto/user.dto", ".", "..", "./", "../../x", ".hidden", ".\\helper",
      "./utils\\math", "@/utils/math", "@/math", "@//abs", "@/../package.json", "@/",
      "~/utils/math", "lodash", "src/utils/math", "/abs/x", "" }

Next ==
    \/ Analyze
    \/ \E fp \in ReanalyzePaths : Reanalyze(fp)
    \/ \E mt \in ModuleTypes : GetContext(mt)
    \/ \E e \in FsEdits : FsChange(e)
    \/ RemoveRoot

Spec == Init /\ [][Next]_vars

\* the analyzer alone, no API layer: analyze() calls between changes of the
\* repository, then one resolve or one export (both leave the analyzer as
\* they found it, so a run is followed up to the first of them)
NextCore ==
    \/ op.name \notin {"resolve", "export"} /\ Analyze
    \/ op.name \notin {"resolve", "export"} /\ \E e \in FsEdits : FsChange(e)
    \/ op.name \notin {"resolve", "export"} /\ RemoveRoot
    \/ op.name \notin {"resolve", "export"} /\ \E f \in ResolveFiles : \E imp \in ImportStrings : Resolve(f, imp)
    \/ op.name \notin {"resolve", "export"} /\ Export

SpecCore == Init /\ [][NextCore]_vars

\* one session of the API layer: analyses and /reanalyze requests between
\* changes of the repository, then one get_context (which leaves the session
\* as it found it, so a run is followed up to the first of them)
NextSession ==
    \/ op.name # "get_context" /\ Analyze
    \/ op.name # "get_context" /\ \E fp \in ReanalyzePaths : Reanalyze(fp)
    \/ op.name # "get_context" /\ \E e \in FsEdits : FsChange(e)
    \/ op.name # "get_context" /\ RemoveRoot
    \/ op.name # "get_context" /\ \E mt \in ModuleTypes : GetContext(mt)

SpecSession == Init /\ [][NextSession]_vars

(***************************************************************************)
(* The session globals of the API layer (main.py) under concurrent         *)
(* requests.  The handlers are coroutines on one event loop: a handler     *)
(* runs alone from one await to the next.  An analyzer is known by the     *)
(* request that built it and by its repository; a repository id            *)
(* (build_repo_id, a hash of the path) by the path.                        *)
(***************************************************************************)
\* POST /generate-docs for work_dir, up to the first await of the LLM loop
GenerateStart(work_dir) ==
    /\ n_requests < MaxRequests
    /\ n_requests' = n_requests + 1
    /\ active_analyzer' = [by |-> n_requests + 1, repo |-> work_dir]
    /\ active_repo_id' = work_dir
    /\ pending' = pending \cup {[by |-> n_requests + 1, repo |-> work_dir]}
    /\ UNCHANGED <<active_doc_parts, cache_file>>
    /\ UNCHANGED <<root_exists, disk, ts_available, tsconfig_paths, tsconfig_base_url,
                   file_map, tree_structure, graph, op, context, resolved, walked,
                   n_ops, n_changes, active, events, exported>>

\* POST /generate-docs of request r, from the last LLM answer on
GenerateFinish(r) ==
    /\ r \in pending
    /\ pending' = pending \ {r}
    /\ active_doc_parts' = r
    /\ cache_file' = [exists |-> TRUE, docParts |-> r, repoPath |-> r.repo,
                      repoId |-> active_repo_id]
    /\ UNCHANGED <<active_analyzer, active_repo_id, n_requests>>
    /\ UNCHANGED <<root_exists, disk, ts_available, tsconfig_paths, tsconfig_base_url,
                   file_map, tree_structure, graph, op, context, resolved, walked,
                   n_ops, n_changes, active, events, exported>>

\* GET /latest-docs
LatestDocs ==
    /\ n_requests < MaxRequests
    /\ n_requests' = n_requests + 1
    /\ IF ~cache_file.exists
       THEN UNCHANGED <<active_analyzer, active_repo_id, active_doc_parts>>
       ELSE /\ active_doc_parts' = cache_file.docParts
            /\ active_analyzer' = IF active_analyzer.by = 0
                                  THEN [by |-> n_requests + 1, repo |-> cache_file.repoPath]
                                  ELSE active_analyzer
            /\ active_repo_id' = IF cache_file.repoId # "" THEN cache_file.repoId
                                 ELSE IF active_analyzer.by = 0 /\ active_repo_id = ""
                                 THEN cache_file.repoPath
                                 ELSE active_repo_id
    /\ UNCHANGED <<cache_file, pending>>
    /\ UNCHANGED <<root_exists, disk, ts_available, tsconfig_paths, tsconfig_base_url,
                   file_map, tree_structure, graph, op, context, resolved, walked,
                   n_ops, n_changes, active, events, exported>>

\* POST /clear-all-data
ClearAllData ==
    /\ n_requests < MaxRequests
    /\ n_requests' = n_requests + 1
    /\ cache_file' = [exists |-> FALSE, docParts |-> [by |-> 0, repo |-> ""],
                      repoPath |-> "", repoId |-> ""]
    /\ active_analyzer' = [by |-> 0, repo |-> ""]
    /\ active_doc_parts' = [by |-> 0, repo |-> ""]
    /\ active_repo_id' = ""
    /\ UNCHANGED pending
    /\ UNCHANGED <<root_exists, disk, ts_available, tsconfig_paths, tsconfig_base_url,
                   file_map, tree_structure, graph, op, context, resolved, walked,
                   n_ops, n_changes, active, events, exported>>

\* the requests of the API layer, interleaved at the awaits of generate-docs
NextApi ==
    \/ \E work_dir \in {"/repoA", "/repoB"} : GenerateStart(work_dir)
    \/ \E r \in pending : GenerateFinish(r)
    \/ LatestDocs
    \/ ClearAllData

SpecApi == Init /\ [][NextApi]_vars


(***************************************************************************)
(* Properties                                                              *)
(***************************************************************************)
\* the path of a repository file relative to the root
RelOf(p) == SubSeq(p, Len(RepoPath) + 2, Len(p))

\* the files of the repository a walk of the root should read
AcceptedReadable ==
    {RelOf(p) : p \in {q \in DOMAIN disk :
                          /\ StartsWith(q, RepoPath \o "/")
                          /\ disk[q].readable
                          /\ ~Pruned(RelOf(q))
                          /\ Accepted(RelOf(q))}}

\* the last operation was a _resolve_import_path call that returned
Resolved == op.name = "resolve" /\ ~resolved.raised

\* C1: whatever the module type and the session, get_context returns a string
\* no longer than the ceiling in force (35000 characters, 100000 for api_ref),
\* the truncation marker included
C1_ContextWithinCeiling ==
    (op.name = "get_context" /\ op.outcome = "ok")
        => ContextLen(context) <= Ceiling(op.arg)

\* C2: analyze() called while the root path does not exist raises a
\* root-not-found error to its caller
C2_MissingRootRaises ==
    (op.name = "analyze" /\ ~root_exists) => op.outcome = "raised"

\* no configured alias prefix starts the import string
NoAliasMatches(import_str) ==
    \A i \in DOMAIN tsconfig_paths.items :
        ~StartsWith(import_str, Replace(tsconfig_paths.items[i][1], "*", ""))

\* none of the probe candidates of path p is a file_map key or a regular file
NoCandidateExists(p) ==
    \A i \in DOMAIN PossibleExtensions :
        ~CandidateExists(file_map, disk, root_exists, p \o PossibleExtensions[i])

\* C3: an import string that matches no configured alias, does not start
\* with '.' and has no existing probe candidate makes _resolve_import_path
\* return None, without raising
C3_UnresolvedReturnsNone ==
    ( /\ op.name = "resolve"
      /\ NoAliasMatches(resolved.import)
      /\ ~StartsWith(resolved.import, ".")
      /\ NoCandidateExists(NormalizePath(resolved.import)) )
        => (~resolved.raised /\ ~resolved.found)

\* the 'defines' edges that point at node n
DefinesInto(n) == {e \in Edges(graph) : e[2] = n /\ e[3] = "defines"}

\* C4: after any sequence of analyze() calls every symbol node (type entity)
\* has exactly one incoming 'defines' edge, whose source is a file node and a
\* key of file_map
C4_OneDefiningFile ==
    \A n \in Nodes(graph) :
        NodeType(graph, n) = "entity"
            => /\ Cardinality(DefinesInto(n)) = 1
               /\ \A e \in DefinesInto(n) :
                     /\ e[1] \in Nodes(graph)
                     /\ NodeType(graph, e[1]) = "file"
                     /\ FmHas(file_map, e[1])

\* C4 happens: a second analyze() after the repository changed, with symbol
\* nodes in the graph
C4_Witness ==
    /\ op.name = "analyze"
    /\ n_ops >= 2
    /\ n_changes >= 1
    /\ \E n \in Nodes(graph) : NodeType(graph, n) = "entity"

\* C5: without the parsing engine analyze() does not raise, file_map holds
\* every accepted readable file of the walk, and the graph has file nodes
\* only: no symbol node, no 'imports' edge, no 'defines' edge
C5_NoParserFilesOnly ==
    ~ts_available
        => /\ op.name = "analyze" => op.outcome = "ok"
           /\ (op.name = "analyze" /\ root_exists)
                 => AcceptedReadable \subseteq FmKeys(file_map)
           /\ Edges(graph) = {}
           /\ \A n \in Nodes(graph) : NodeType(graph, n) = "file"

\* C5 happens: analyze() without the engine has read a source file whose
\* text has imports and definitions to capture
C5_Witness ==
    /\ ~ts_available
    /\ op.name = "analyze"
    /\ root_exists
    /\ FmHas(file_map, "src/user.service.ts")
    /\ Len(Content[FmGet(file_map, "src/user.service.ts")].captures) > 0
    /\ "src/user.service.ts" \in Nodes(graph)

\* C6: after any sequence of session operations no key of file_map lies
\* beneath a directory named in the ignore set
C6_NoIgnoredKeys ==
    \A k \in FmKeys(file_map) : ~Pruned(k)

\* C7: with the alias configuration {"@/*": ["src/*"]} and base url '.', the
\* path built for import '@/' + s before extension probing is 'src/' + s
C7_AliasPathMatchesKeys ==
    ( /\ Resolved
      /\ tsconfig_paths.items = << <<"@/*", <<"src/*">> >> >>
      /\ tsconfig_base_url = "."
      /\ StartsWith(resolved.import, "@/") )
        => resolved.pre = "src/" \o SubSeq(resolved.import, 3, Len(resolved.import))

\* C8: for an import string starting with '.', the path before extension
\* probing is the import joined to the directory of the importing file with
\* '.' and '..' segments collapsed (in the form step 3 leaves it in), whatever
\* alias also matched the import; "./helper" from a/b/c.ts gives a/b/helper
C8_RelativeImport ==
    (Resolved /\ StartsWith(resolved.import, "."))
        => /\ resolved.pre =
                 NormalizePath(Normpath(PathJoin(Dirname(resolved.file), resolved.import)))
           /\ (resolved.file = "a/b/c.ts" /\ resolved.import = "./helper")
                 => resolved.pre = "a/b/helper"
           /\ (resolved.file = "a/b/c.ts" /\ resolved.import = "../helper")
                 => resolved.pre = "a/helper"
           /\ (resolved.file = "a/b/c.ts" /\ resolved.import = "./x/../utils/math")
                 => resolved.pre = "a/b/utils/math"
           /\ (resolved.file = "c.ts" /\ resolved.import = "./helper")
                 => resolved.pre = "helper"

\* C8 happens: a relative import that an alias prefix matches too
C8_Witness ==
    /\ Resolved
    /\ resolved.file = "src/user.service.ts"
    /\ resolved.import = "./lib/x"
    /\ AliasSubstitution(tsconfig_paths.items, tsconfig_base_url, "./lib/x") = "src/vendor/x"
    /\ resolved.pre = "src/lib/x"

\* the probe order the claim states
SuffixOrder == <<".ts", ".tsx", ".js", ".jsx", "/index.ts", "/index.tsx", "/index.js">>

\* the suffixes of SuffixOrder whose candidate for path p exists
Hits(p) ==
    {i \in DOMAIN SuffixOrder :
        CandidateExists(file_map, disk, root_exists, p \o SuffixOrder[i])}

\* C9: when a candidate with one of the suffixes .ts, .tsx, .js, .jsx,
\* /index.ts, /index.tsx, /index.js is a file_map key or a regular file, the
\* resolver returns the path plus the first such suffix in that order; with
\* both x.ts and x.js it returns x.ts
C9_FirstSuffixWins ==
    (Resolved /\ Hits(resolved.pre) # {})
        => /\ resolved.found
           /\ \E i \in Hits(resolved.pre) :
                 /\ resolved.path = resolved.pre \o SuffixOrder[i]
                 /\ \A j \in Hits(resolved.pre) : i <= j

\* C9 happens: src/utils/math.ts and src/utils/math.js both exist and the
\* probe of src/utils/math returns the .ts file
C9_Witness ==
    /\ Resolved
    /\ resolved.pre = "src/utils/math"
    /\ {1, 3} \subseteq Hits("src/utils/math")
    /\ resolved.path = "src/utils/math.ts"

\* C10: after an analyze() call the file_map and the graph hold only what
\* that call's walk found: no entry, node or edge of a file the walk did not
\* read
C10_OnlyThisWalk ==
    op.name = "analyze"
        => /\ FmKeys(file_map) \subseteq walked
           /\ \A n \in Nodes(graph) : NodeType(graph, n) = "file" => n \in walked
           /\ \A e \in Edges(graph) : e[1] \in walked

\* C11: a /reanalyze request for the file p changes only file_map[p], the
\* outgoing edges of p and the symbol nodes p::*: every other file_map entry,
\* every node of another file and every edge whose source is another file is
\* as it was before the request, whatever else changed on disk meanwhile
C11_ReanalyzeFrame ==
    [][op'.name = "reanalyze"
          => /\ FmKeys(file_map') \subseteq FmKeys(file_map) \cup {op'.arg}
             /\ \A k \in FmKeys(file_map) \ {op'.arg} :
                   FmHas(file_map', k) /\ FmGet(file_map', k) = FmGet(file_map, k)
             /\ \A n \in Nodes(graph) :
                   BeforeColons(n) # op'.arg
                       => n \in Nodes(graph') /\ graph'.nodes[n] = graph.nodes[n]
             /\ {e \in Edges(graph') : e[1] # op'.arg}
                   = {e \in Edges(graph) : e[1] # op'.arg}]_vars

\* the positions of the events of kind ev
EventsOf(ev) == {i \in DOMAIN events : events[i].ev = ev}

\* C12: in every analyze() no import is resolved before the collection pass
\* has put every file of the walk into file_map, and the alias configuration
\* is loaded before the first resolve: every collect step and the load step
\* come before every resolve step, and the collect steps are the whole walk
C12_CollectThenResolve ==
    /\ \A i \in EventsOf("resolve") :
          /\ \A j \in EventsOf("collect") : j < i
          /\ \E j \in EventsOf("load_tsconfig") : j < i
          /\ walked \subseteq FmKeys(file_map)
    /\ {events[j].file : j \in EventsOf("collect")} = walked
    /\ (op.name = "analyze" /\ root_exists) => AcceptedReadable \subseteq walked

\* C12 happens: analyze() resolved the imports of a file that the walk read
\* before another file
C12_Witness ==
    /\ op.name = "analyze"
    /\ \E i \in EventsOf("resolve") : \E j, k \in EventsOf("collect") :
          /\ events[j].file = events[i].file
          /\ j < k /\ k < i

\* the 'imports' edges an operation added to the graph
NewImports == {e \in Edges(graph') \ Edges(graph) : e[3] = "imports"}

\* C13: an 'imports' edge is added only from a key of file_map to the path
\* the resolver returned, which at that moment is a key of file_map or a
\* regular file below the root; never to an import string that did not resolve
C13_ImportsResolved ==
    [][\A e \in NewImports :
          /\ FmHas(file_map', e[1])
          /\ CandidateExists(file_map', disk', root_exists', e[2])]_vars

\* C13 happens: the graph has an 'imports' edge, and a file whose import
\* ('lodash') did not resolve
C13_Witness ==
    /\ op.name = "analyze"
    /\ \E e \in Edges(graph) : e[3] = "imports"
    /\ \E i \in EventsOf("resolve") :
          /\ events[i].arg = "lodash"
          /\ ~ResolveImportPath(tsconfig_paths, tsconfig_base_url, file_map, disk,
                                root_exists, events[i].file, "lodash").found

\* C14: every node of the graph is a file node (type 'file', with a size) or a
\* symbol node (type 'entity', with name, kind, filePath, line and snippet);
\* no node is without a type, the targets of 'imports' edges included
C14_NodesTyped ==
    \A n \in Nodes(graph) :
        \/ NodeType(graph, n) = "file" /\ "size" \in DOMAIN graph.nodes[n]
        \/ /\ NodeType(graph, n) = "entity"
           /\ {"name", "kind", "filePath", "line", "snippet"} \subseteq DOMAIN graph.nodes[n]

\* the text of a capture
TextOf(c) == StripQuotes(c.raw)

\* the captures of the query for the file f of file_map
FileCaptures(f) ==
    IF LanguageOf(f) \in DOMAIN QUERIES
    THEN CapturesOf(LanguageOf(f), FmGet(file_map, f))
    ELSE << >>

\* what the import string imp of file f resolves to
ResolveOf(f, imp) ==
    ResolveImportPath(tsconfig_paths, tsconfig_base_url, file_map, disk, root_exists, f, imp)

\* the import imp of file f resolves to the collected file g
ResolvesTo(f, imp, g) ==
    /\ ~ResolveOf(f, imp).raised
    /\ ResolveOf(f, imp).found
    /\ FileKey(Abs(ResolveOf(f, imp).path)) = Abs(g)

\* C15: after analyze() with parsing available, for every collected
\* TypeScript or JavaScript file f, each import of f that resolves to a
\* collected file g gives the 'imports' edge f -> g, g being g's file_map key,
\* and each class, interface, type or function n declared in f gives the node
\* f::n and the 'defines' edge f -> f::n
C15_EdgesOfEveryImport ==
    (op.name = "analyze" /\ ts_available /\ root_exists /\ n_changes = 0)
        => \A f \in {w \in walked : LanguageOf(w) \in {"typescript", "javascript"}} :
              \A i \in DOMAIN FileCaptures(f) :
                 LET c == FileCaptures(f)[i]
                 IN  /\ c.tag = "import_path"
                        => \A g \in walked :
                              ResolvesTo(f, TextOf(c), g)
                                  => <<f, g, "imports">> \in Edges(graph)
                     /\ c.tag \in DefinitionTags
                        => /\ SymbolId(f, TextOf(c)) \in Nodes(graph)
                           /\ <<f, SymbolId(f, TextOf(c)), "defines">> \in Edges(graph)

\* x is an element of the list sq
InList(x, sq) == \E i \in DOMAIN sq : sq[i] = x

\* C16: export_knowledge_graph returns one entry per graph node; for every
\* edge u -> v, of either kind, v is in the calls of u and u in the calledBy
\* of v; every id in a calls or calledBy list is a key of the export
C16_ExportMirrorsGraph ==
    op.name = "export"
        => /\ DOMAIN exported = Nodes(graph)
           /\ \A n \in DOMAIN exported : exported[n].id = n
           /\ \A e \in Edges(graph) :
                 /\ InList(e[2], exported[e[1]].calls)
                 /\ InList(e[1], exported[e[2]].calledBy)
           /\ \A n \in DOMAIN exported :
                 /\ \A i \in DOMAIN exported[n].calls :
                       exported[n].calls[i] \in DOMAIN exported
                 /\ \A i \in DOMAIN exported[n].calledBy :
                       exported[n].calledBy[i] \in DOMAIN exported

\* C16 happens: a graph with edges of both kinds, one of them to a node that
\* is no collected file, is exported
C16_Witness ==
    /\ op.name = "export"
    /\ \E e \in Edges(graph) : e[3] = "defines"
    /\ \E e \in Edges(graph) : e[3] = "imports" /\ NodeType(graph, e[2]) = "none"

\* the least member of a set of positions
Least(ps) == CHOOSE k \in ps : \A m \in ps : k <= m

\* the text s from position i on without its comments: a '//' or '/*' inside
\* a JSON string is part of the string, not a comment.  in_str: position i is
\* inside a string
RECURSIVE CommentFreeFrom(_, _, _)
CommentFreeFrom(s, i, in_str) ==
    LET closes == {k \in i..Len(s) : Char(s, k) = "\"" /\ (k = i \/ Char(s, k - 1) # "\\")}
        marks  == {k \in i..Len(s) :
                      \/ Char(s, k) = "\""
                      \/ k < Len(s) /\ SubSeq(s, k, k + 1) \in {"//", "/*"}}
        k      == Least(marks)
        nl     == IndexOf(SubSeq(s, k, Len(s)), "\n")
        ends   == {j \in (k + 2)..(Len(s) - 1) : SubSeq(s, j, j + 1) = "*/"}
    IN  IF i > Len(s) THEN ""
        ELSE IF in_str
        THEN IF closes = {} THEN SubSeq(s, i, Len(s))
             ELSE SubSeq(s, i, Least(closes)) \o CommentFreeFrom(s, Least(closes) + 1, FALSE)
        ELSE IF marks = {} THEN SubSeq(s, i, Len(s))
        ELSE SubSeq(s, i, k - 1)
                \o (IF Char(s, k) = "\"" THEN "\"" \o CommentFreeFrom(s, k + 1, TRUE)
                    ELSE IF SubSeq(s, k, k + 1) = "//"
                    THEN IF nl = 0 THEN "" ELSE CommentFreeFrom(s, k + nl - 1, FALSE)
                    ELSE IF ends = {} THEN SubSeq(s, k, Len(s))
                    ELSE CommentFreeFrom(s, Least(ends) + 2, FALSE))

\* the alias configuration file of the repository, as JSON once its comments
\* are removed
TsconfigJson ==
    JsonLoads(CommentFreeFrom(
        Content[disk[FileKey(PathJoin(RepoPath, "tsconfig.json"))].cid].text, 1, FALSE))

\* the alias configuration file is there and can be read
TsconfigReadable ==
    /\ OsIsFile(disk, root_exists, PathJoin(RepoPath, "tsconfig.json"))
    /\ disk[FileKey(PathJoin(RepoPath, "tsconfig.json"))].readable

\* the alias configuration file is missing, unreadable, no JSON, or JSON of
\* the wrong shape
LoadFails ==
    \/ ~TsconfigReadable
    \/ ~TsconfigJson.ok
    \/ TsconfigJson.opts = "other"
    \/ TsconfigJson.paths \notin {"dict", "none"}

\* C17: a load of a missing, unparseable or wrongly shaped alias
\* configuration does not raise and leaves both settings at their defaults
\* (no aliases, base url '.'); the alias table it leaves never makes a later
\* resolve raise
C17_FailedLoadKeepsDefaults ==
    /\ (op.name = "init" /\ LoadFails)
          => /\ tsconfig_paths = DefaultTsconfig.paths
             /\ tsconfig_base_url = DefaultTsconfig.base_url
    /\ op.name = "resolve" => ~resolved.raised

\* C18: when the normalized path itself is a key of file_map or a regular
\* file on disk the resolver returns it, whatever suffixed candidate exists
C18_VerbatimFirst ==
    (Resolved /\ CandidateExists(file_map, disk, root_exists, resolved.pre))
        => (resolved.found /\ resolved.path = resolved.pre)

\* the positions of the truncation marker in the returned string
MarkerAt == {i \in DOMAIN context : context[i].kind = "marker"}

\* C19: in what get_context returns the truncation marker occurs at most
\* once, and nothing follows it
C19_MarkerLast ==
    (op.name = "get_context" /\ op.outcome = "ok")
        => MarkerAt \subseteq {Len(context)}

\* processing the file f of file_map raises inside _parse_dependencies: the
\* parse fails, or the resolver raises on one of its imports
ProcessingFails(f) ==
    /\ ParsesFile(ts_available, f)
    /\ LanguageOf(f) \in DOMAIN QUERIES
    /\ \/ ~Content[FmGet(file_map, f)].parse_ok
       \/ /\ tsconfig_paths.kind # "dict"
          /\ \E i \in DOMAIN FileCaptures(f) : FileCaptures(f)[i].tag = "import_path"

\* C20: a readable file whose parsing or capture processing raises is a key
\* of file_map and has no symbol node and no outgoing edge, and the files
\* after it are processed all the same
C20_NoPartialResult ==
    (op.name = "analyze" /\ root_exists /\ n_changes = 0)
        => \A f \in walked :
              /\ FmHas(file_map, f)
              /\ ProcessingFails(f)
                    => /\ \A e \in Edges(graph) : e[1] # f
                       /\ \A n \in Nodes(graph) : n # f => BeforeColons(n) # f
              /\ (ParsesFile(ts_available, f) /\ ~ProcessingFails(f))
                    => \A i \in DOMAIN FileCaptures(f) :
                          FileCaptures(f)[i].tag \in DefinitionTags
                              => SymbolId(f, TextOf(FileCaptures(f)[i])) \in Nodes(graph)

\* C21: for every alias configuration file that is valid JSON once its
\* comments are removed, the loaded base url and aliases are those of the
\* JSON value of the comment-free text, also when a string value of the file
\* holds '//' or '/*'
C21_CommentsOnly ==
    (op.name = "init" /\ TsconfigReadable /\ TsconfigJson.ok
        /\ TsconfigJson.opts = "dict" /\ TsconfigJson.paths \in {"dict", "none"})
        => /\ tsconfig_base_url = (IF TsconfigJson.base = "str"
                                   THEN TsconfigJson.baseUrl ELSE ".")
           /\ tsconfig_paths = [kind |-> "dict", items |-> TsconfigJson.items]

\* the position of the first alias whose prefix starts the import string
FirstMatch(items, import_str) ==
    CHOOSE i \in DOMAIN items :
        /\ StartsWith(import_str, Replace(items[i][1], "*", ""))
        /\ \A j \in 1..(i - 1) : ~StartsWith(import_str, Replace(items[j][1], "*", ""))

\* C22: the first alias, in declaration order, whose prefix starts the import
\* string decides the result: the path before extension probing is the one
\* the resolver builds from the aliases up to and including that one, also
\* when its target list is empty
C22_FirstAliasDecides ==
    (Resolved /\ ~NoAliasMatches(resolved.import))
        => resolved.pre =
              PreProbePath(FirstN(tsconfig_paths.items,
                                  FirstMatch(tsconfig_paths.items, resolved.import)),
                           tsconfig_base_url, resolved.file, resolved.import)

\* C24: no analyze() and no /reanalyze request removes anything: the keys of
\* file_map, the nodes and the edges of the graph after the operation include
\* those before it
C24_NothingRemoved ==
    [][op'.name \in {"analyze", "reanalyze"}
          => /\ FmKeys(file_map) \subseteq FmKeys(file_map')
             /\ Nodes(graph) \subseteq Nodes(graph')
             /\ Edges(graph) \subseteq Edges(graph')]_vars

\* C24 happens: the service file was replaced by a text without the import of
\* the dto file and analysed again; the edge to the dto file is still there
C24_Witness ==
    /\ op.name \in {"analyze", "reanalyze"}
    /\ n_changes >= 1
    /\ FmHas(file_map, "src/user.service.ts")
    /\ FmGet(file_map, "src/user.service.ts") = "svc2"
    /\ <<"src/user.service.ts", "src/dto/user.dto.ts", "imports">> \in Edges(graph)
    /\ "src/user.service.ts::UserService" \in Nodes(graph)

\* C25: every key of file_map is a normalized repo-relative path, with
\* forward slashes and no leading slash, of a place below the repository
\* root, whatever paths the /reanalyze requests named
C25_KeysBelowRoot ==
    \A k \in FmKeys(file_map) :
        /\ ~StartsWith(k, "/")
        /\ ~Contains(k, "\\")
        /\ Normpath(k) = k
        /\ StartsWith(FileKey(Abs(k)), RepoPath \o "/")

\* C26: a /reanalyze request that ends with an error response (404 or 500)
\* leaves file_map and the graph as they were, and the session active as
\* before
C26_ErrorLeavesState ==
    [][(op'.name = "reanalyze" /\ op'.outcome \in {"404", "500"})
          => /\ file_map' = file_map
             /\ graph' = graph
             /\ active' = active]_vars

\* C27: an analyze() that follows an analyze() with no change of the
\* repository in between leaves file_map, tree_structure and the graph (the
\* nodes with their attributes, the edges with their relations) as they were
C27_AnalyzeIdempotent ==
    [][(op.name = "analyze" /\ op'.name = "analyze")
          => /\ file_map' = file_map
             /\ tree_structure' = tree_structure
             /\ graph' = graph]_vars

\* C27 happens: a second analyze() in a row, on a graph with imports and
\* definitions
C27_Witness ==
    /\ op.name = "analyze"
    /\ n_ops >= 2
    /\ n_changes = 0
    /\ \E e \in Edges(graph) : e[3] = "imports"
    /\ \E e \in Edges(graph) : e[3] = "defines"

\* the last operation was get_context('api_ref')
ApiRefDone == op.name = "get_context" /\ op.arg = "api_ref"

\* the primary files of the api_ref branch, in file_map order
PrimaryFiles ==
    LET primary == SelectSeq(file_map, LAMBDA e : IsPrimaryFile(e[1], e[2]))
    IN  [i \in 1..Len(primary) |-> primary[i][1]]

\* what get_deep_dependencies does for the primary files
DeepRun == GetDeepDependencies(file_map, graph, PrimaryFiles)

\* the re-export targets of the file b of file_map
TargetsOf(b) == ResolveBarrelExports(file_map, b, FmGet(file_map, b)).files

\* C23: for every barrel file the dependency expansion reaches, each of its
\* re-export targets that is a collected file is among the collected
\* candidates, the targets of a barrel reached as a re-export target of
\* another barrel included
C23_BarrelTargetsCollected ==
    (ApiRefDone /\ op.outcome = "ok")
        => \A b \in DeepRun.visited :
              (FmHas(file_map, b) /\ IsIndexFile(b))
                  => \A i \in DOMAIN TargetsOf(b) :
                        (FmHas(file_map, TargetsOf(b)[i])
                            /\ ~InList(TargetsOf(b)[i], PrimaryFiles))
                            => \E j \in DOMAIN DeepRun.collected :
                                  DeepRun.collected[j].path = TargetsOf(b)[i]

\* what find_type_via_barrel_chain does for a type name when no file has been
\* included yet
BarrelRun(type_name) ==
    LET barrels == SelectSeq(file_map, LAMBDA e : IsIndexFile(e[1]))
    IN  BarrelChain(file_map, type_name, {},
            [queue |-> [i \in 1..Len(barrels) |-> <<barrels[i][1], 0>>],
             matches |-> << >>, raised |-> FALSE, expanded |-> << >>])

\* no file occurs twice in the list of expansions, none beyond depth cap
Bounded(expanded, cap) ==
    /\ \A i, j \in DOMAIN expanded : i # j => expanded[i][1] # expanded[j][1]
    /\ \A i \in DOMAIN expanded : expanded[i][2] <= cap

\* C28: both breadth-first loops of the api_ref extraction come to an end
\* with an empty queue (or with the exception of a resolve), having expanded
\* each file at most once and none beyond the cap, 3 for the depth of
\* get_deep_dependencies and 4 for the hops of find_type_via_barrel_chain
C28_BoundedExpansion ==
    ApiRefDone
        => /\ DeepRun.raised \/ Len(DeepRun.queue) = 0
           /\ Bounded(DeepRun.expanded, MaxDepth)
           /\ \A t \in RefsOf(file_map, FmKeys(file_map)) :
                 /\ BarrelRun(t).raised \/ Len(BarrelRun(t).queue) = 0
                 /\ Bounded(BarrelRun(t).expanded, MaxHops)

\* C28 happens: the graph has a file that imports itself and two files that
\* import each other, two barrel files re-export each other, and both loops
\* expanded several files
C28_Witness ==
    /\ ApiRefDone
    /\ \E e \in Edges(graph) : e[1] = e[2]
    /\ \E e, f \in Edges(graph) : e[1] = f[2] /\ e[2] = f[1] /\ e[1] # e[2]
    /\ \E a, b \in FmKeys(file_map) :
          /\ a # b /\ IsIndexFile(a) /\ IsIndexFile(b)
          /\ InList(b, TargetsOf(a)) /\ InList(a, TargetsOf(b))
    /\ Len(DeepRun.expanded) >= 3
    /\ Len(BarrelRun("DeepModel").expanded) >= 2

\* the file path a section header of the api_ref bundle names
PathOf(header) == SubSeq(header, LastIndexOf(header, " ") + 1, Len(header))

\* C29: in what get_context('api_ref') returns no file is included twice:
\* no two sections name the same file
C29_EachFileOnce ==
    (ApiRefDone /\ op.outcome = "ok")
        => \A i, j \in DOMAIN context :
              (i # j /\ context[i].kind = "chunk" /\ context[j].kind = "chunk")
                  => PathOf(context[i].header) # PathOf(context[j].header)

============================================================================
